---- MODULE Spec2Model ----
(***************************************************************************)
(* A model of the amps workflow engine: the expression evaluator, the      *)
(* WorkflowExecutor (context stack, outputs, loops, conditionals,          *)
(* sub-flows, human input) and the prelude of the `workflow run` command.  *)
(*                                                                         *)
(* JavaScript values are tagged records; JavaScript objects are sequences  *)
(* of [k, v] entries, so that insertion order (Object.entries, spread) is  *)
(* kept.  Strings are TLA+ strings and are built with \o as the code       *)
(* builds them.                                                            *)
(***************************************************************************)
EXTENDS Integers, Sequences, FiniteSets, TLC

\* ------------------------------------------------------------------ bounds

\* Largest length of the array input `items` (number of `over` iterations).
MaxItems == 2

\* Largest value of the numeric input `n` (number of `count` iterations).
MaxCount == 2

\* The largest --retry value tried.
MaxRetry == 1

\* execute() is called at most this many times on one executor.
MaxExecutions == 2

\* ------------------------------------------------------- JavaScript values

Str(s) == [t |-> "str", s |-> s]
Num(n) == [t |-> "num", n |-> n]
Bool(b) == [t |-> "bool", b |-> b]
Arr(a) == [t |-> "arr", a |-> a]
Obj(o) == [t |-> "obj", o |-> o]
Undef == [t |-> "undef"]
NaN == [t |-> "nan"]

\* The absent optional property of a node (`node.over` when not given).
None == [none |-> TRUE]

\* An object literal entry.
KV(k, v) == [k |-> k, v |-> v]

\* `k in o`
ObjHas(o, k) == \E i \in 1..Len(o) : o[i].k = k

\* `o[k]` (undefined when the key is absent)
ObjGet(o, k) ==
    IF ObjHas(o, k)
    THEN o[CHOOSE i \in 1..Len(o) : o[i].k = k].v
    ELSE Undef

\* `o[k] = v`: an existing key keeps its position, a new key is appended.
ObjPut(o, k, v) ==
    IF ObjHas(o, k)
    THEN [i \in 1..Len(o) |-> IF o[i].k = k THEN KV(k, v) ELSE o[i]]
    ELSE Append(o, KV(k, v))

RECURSIVE ObjSpread(_, _)
\* `{ ...a, ...b }`
ObjSpread(a, b) ==
    IF b = <<>> THEN a
    ELSE ObjSpread(ObjPut(a, Head(b).k, Head(b).v), Tail(b))

\* Object.keys(o), as a set.
ObjKeys(o) == {o[i].k : i \in 1..Len(o)}

\* The names every object literal inherits from Object.prototype.
ObjectPrototypeKeys ==
    {"constructor", "toString", "valueOf", "hasOwnProperty", "isPrototypeOf",
     "propertyIsEnumerable", "toLocaleString"}

\* A function value (the inherited members of an object).
Fn(name) == [t |-> "fn", name |-> name]

\* `k in o` on an object literal: own keys and inherited ones.
JsIn(o, k) == ObjHas(o, k) \/ k \in ObjectPrototypeKeys

\* `o[k]` on an object literal: an own key, else the inherited member.
JsGet(o, k) ==
    IF ObjHas(o, k) THEN ObjGet(o, k)
    ELSE IF k \in ObjectPrototypeKeys THEN Fn(k)
    ELSE Undef

\* `a === b` on primitives (NaN differs from itself); the model's programs
\* never store two distinct arrays or objects of equal content under one
\* name, so reference equality and equality of content agree on them.
StrictEq(a, b) == a.t # "nan" /\ a = b

\* Boolean(v)
Truthy(v) ==
    CASE v.t = "undef" -> FALSE
      [] v.t = "nan" -> FALSE
      [] v.t = "bool" -> v.b
      [] v.t = "num" -> v.n # 0
      [] v.t = "str" -> v.s # ""
      [] OTHER -> TRUE

RECURSIVE JoinStr(_, _)
\* Array.prototype.join on an array of strings.
JoinStr(parts, sep) ==
    IF parts = <<>> THEN ""
    ELSE IF Len(parts) = 1 THEN parts[1]
    ELSE parts[1] \o sep \o JoinStr(Tail(parts), sep)

RECURSIVE JsString(_)
\* String(v)
JsString(v) ==
    CASE v.t = "str" -> v.s
      [] v.t = "num" -> ToString(v.n)
      [] v.t = "bool" -> (IF v.b THEN "true" ELSE "false")
      [] v.t = "undef" -> "undefined"
      [] v.t = "nan" -> "NaN"
      [] v.t = "arr" ->
            JoinStr([i \in 1..Len(v.a) |->
                        IF v.a[i].t = "undef" THEN "" ELSE JsString(v.a[i])], ",")
      [] OTHER -> "[object Object]"

\* Number(text) for the texts a user or a default can supply in the model.
JsNumber(v) ==
    CASE v.t = "num" -> v
      [] v.t = "bool" -> Num(IF v.b THEN 1 ELSE 0)
      [] v.t = "str" /\ v.s = "" -> Num(0)
      [] v.t = "str" /\ v.s = "5" -> Num(5)
      [] v.t = "str" /\ v.s = "7" -> Num(7)
      [] OTHER -> NaN

\* "  " repeated `depth` times: the indentation of JSON.stringify(v, null, 2).
RECURSIVE Indent(_)
Indent(depth) == IF depth = 0 THEN "" ELSE "  " \o Indent(depth - 1)

RECURSIVE JsonText(_, _)
\* JSON.stringify(v, null, 2) at nesting `depth`.  Object entries whose value
\* is undefined are left out; undefined and NaN array elements print as null.
JsonText(v, depth) ==
    CASE v.t = "str" -> "\"" \o v.s \o "\""
      [] v.t = "num" -> ToString(v.n)
      [] v.t = "bool" -> (IF v.b THEN "true" ELSE "false")
      [] v.t = "nan" -> "null"
      [] v.t = "undef" -> "null"
      [] v.t = "arr" ->
            IF v.a = <<>> THEN "[]"
            ELSE "[\n"
                 \o JoinStr([i \in 1..Len(v.a) |->
                                Indent(depth + 1) \o JsonText(v.a[i], depth + 1)], ",\n")
                 \o "\n" \o Indent(depth) \o "]"
      [] OTHER ->
            LET kept == SelectSeq(v.o, LAMBDA e : e.v.t # "undef")
            IN  IF kept = <<>> THEN "{}"
                ELSE "{\n"
                     \o JoinStr([i \in 1..Len(kept) |->
                                    Indent(depth + 1) \o "\"" \o kept[i].k \o "\": "
                                    \o JsonText(kept[i].v, depth + 1)], ",\n")
                     \o "\n" \o Indent(depth) \o "}"

\* JSON.stringify(v, null, 2)
JsonStringify(v) == JsonText(v, 0)

\* ------------------------------------------------------------- expressions

\* Builtins injected into every expression scope.
BUILTIN_NAMES ==
    {"JSON", "Math", "Date", "parseInt", "parseFloat", "String", "Number",
     "Boolean", "Array", "Object", "undefined", "NaN", "Infinity", "isNaN",
     "isFinite", "encodeURIComponent", "decodeURIComponent"}

\* The value bound to a builtin name.
BuiltinValue(name) ==
    CASE name = "undefined" -> Undef
      [] name = "NaN" -> NaN
      [] OTHER -> [t |-> "builtin", name |-> name]

\* The identifiers that occur as whole expressions in the model's documents.
Identifiers ==
    {"topic", "items", "item", "index", "n", "flag", "g", "acc", "seen",
     "pg", "x", "text", "tone", "extra", "missing", "who", "count", "ok",
     "undefined"}

\* What `new Function(..., "return (" + text + ")")` compiles the text to,
\* for the expression texts of the model's documents: an identifier, a
\* negated identifier, a literal, or a text that does not compile.
JsParse(text) ==
    CASE text \in Identifiers -> [op |-> "var", name |-> text]
      [] text = "!flag" -> [op |-> "not", name |-> "flag"]
      [] text = "!index" -> [op |-> "not", name |-> "index"]
      [] text = "true" -> [op |-> "lit", val |-> Bool(TRUE)]
      [] text = "false" -> [op |-> "lit", val |-> Bool(FALSE)]
      [] text = "5" -> [op |-> "lit", val |-> Num(5)]
      [] text = "[\"formal\", \"casual\"]" ->
            [op |-> "lit", val |-> Arr(<<Str("formal"), Str("casual")>>)]
      [] OTHER -> [op |-> "bad"]

\* The value of an identifier inside the compiled function: the builtins are
\* the later parameters, so they win over a scope key of the same name; a
\* name bound nowhere raises ReferenceError, reported here as "throws".
Lookup(name, scope) ==
    IF name \in BUILTIN_NAMES THEN [threw |-> FALSE, val |-> BuiltinValue(name)]
    ELSE IF ObjHas(scope, name) THEN [threw |-> FALSE, val |-> ObjGet(scope, name)]
    ELSE [threw |-> TRUE, val |-> Undef]

\* Running the compiled function.
RunCompiled(ast, scope) ==
    CASE ast.op = "var" -> Lookup(ast.name, scope)
      [] ast.op = "not" ->
            LET r == Lookup(ast.name, scope)
            IN  IF r.threw THEN r ELSE [threw |-> FALSE, val |-> Bool(~Truthy(r.val))]
      [] ast.op = "lit" -> [threw |-> FALSE, val |-> ast.val]
      [] OTHER -> [threw |-> TRUE, val |-> Undef]

\* The scope keys of the model that `new Function` rejects as parameter
\* names with a SyntaxError: a hyphenated name.
NotParameterNames == {"first-draft"}

\* `new Function(...allKeys, body)`: every scope key is a parameter name.
Compiles(allKeys) == allKeys \cap NotParameterNames = {}

\* Faulty variant: there is no catch, the failure of the compiled function
\* (or of the compilation) escapes to the caller.
evaluateExpressionUncaught(expr, scope) ==
    IF expr = "" THEN Undef
    ELSE IF ~Compiles(ObjKeys(scope)) THEN [t |-> "thrown"]
    ELSE LET r == RunCompiled(JsParse(expr), scope)
         IN  IF r.threw THEN [t |-> "thrown"] ELSE r.val

\* evaluateExpression: the empty text is undefined; a failure, of the
\* compilation or of the call, is undefined.
evaluateExpression(expr, scope) ==
    IF expr = "" THEN Undef
    ELSE IF ~Compiles(ObjKeys(scope)) THEN Undef
    ELSE LET r == RunCompiled(JsParse(expr), scope)
         IN  IF r.threw THEN Undef ELSE r.val

\* A template is kept as its segments: literal text [lit |-> ...] and
\* `{...}` spans [expr |-> ...].  Each span is evaluated and stringified,
\* undefined as the empty string.
RECURSIVE interpolateString(_, _)
interpolateString(template, scope) ==
    IF template = <<>> THEN ""
    ELSE LET seg == Head(template)
             piece == IF "lit" \in DOMAIN seg THEN seg.lit
                      ELSE LET value == evaluateExpression(seg.expr, scope)
                           IN  IF value.t = "undef" THEN "" ELSE JsString(value)
         IN  piece \o interpolateString(Tail(template), scope)

\* evaluateCondition
evaluateCondition(expr, scope) == Truthy(evaluateExpression(expr, scope))

\* An Expression: raw source text and the static flag.
Static(raw) == [raw |-> raw, isStatic |-> TRUE]
Dynamic(raw) == [raw |-> raw, isStatic |-> FALSE]

\* Faulty variant: the raw text is evaluated whether static or not.
resolveExpressionEvaluating(expr, scope) == evaluateExpression(expr.raw, scope)

\* resolveExpression: a static expression is its raw string.
resolveExpression(expr, scope) ==
    IF expr.isStatic THEN Str(expr.raw)
    ELSE evaluateExpression(expr.raw, scope)

\* ------------------------------------------------------------------- nodes

\* Template segments.
Lit(text) == [lit |-> text]
Ex(raw) == [expr |-> raw]

\* WorkflowNode variants.  `id` stands for the identity of the node object.
ProseNode(id, content) == [id |-> id, kind |-> "prose", content |-> content]
GenerationNode(id, name) == [id |-> id, kind |-> "generation", name |-> name]
LoopNode(id, name, over, count, children) ==
    [id |-> id, kind |-> "loop", name |-> name, over |-> over, count |-> count,
     children |-> children]
IfNode(id, condition, children, hasElse, elseChildren) ==
    [id |-> id, kind |-> "if", condition |-> condition, children |-> children,
     hasElse |-> hasElse, elseChildren |-> elseChildren]
SetNode(id, name, value) == [id |-> id, kind |-> "set", name |-> name, value |-> value]
LogNode(id, content) == [id |-> id, kind |-> "log", content |-> content]
CommentNode(id) == [id |-> id, kind |-> "comment"]
FlowNode(id, name, src, inputs) ==
    [id |-> id, kind |-> "flow", name |-> name, src |-> src, inputs |-> inputs]
PromptNode(id, name, message, default, inputType) ==
    [id |-> id, kind |-> "prompt", name |-> name, message |-> message,
     default |-> default, inputType |-> inputType]
SelectNode(id, name, message, options) ==
    [id |-> id, kind |-> "select", name |-> name, message |-> message,
     options |-> options]
ConfirmNode(id, name, message, default) ==
    [id |-> id, kind |-> "confirm", name |-> name, message |-> message,
     default |-> default]

\* InputDef: required = (no default supplied).
FieldDef(name, type) == [name |-> name, type |-> type]
StructuredNode(id, name, fields) ==
    [id |-> id, kind |-> "structured", name |-> name, fields |-> fields]

InputDef(name, default) ==
    [name |-> name, required |-> (default.t = "undef"), default |-> default]

\* WorkflowDefinition; `outputs` is the allow-list (empty: none declared).
WorkflowDefinition(name, inputs, outputs, nodes) ==
    [name |-> name, inputs |-> inputs, outputs |-> outputs, nodes |-> nodes]

\* --------------------------------------------------------------- documents

\* Prose, Generation, Prose, Generation.
SeqDoc ==
    WorkflowDefinition("seq", <<InputDef("topic", Str("cats"))>>, <<>>,
        <<ProseNode("s1", <<Lit("Write about "), Ex("topic")>>),
          GenerationNode("s2", "a"),
          ProseNode("s3", <<Lit("Critique it.")>>),
          GenerationNode("s4", "b")>>)

\* A generation, then a loop over the input array with a generation and a
\* Set in its body, then a generation.
LoopDoc ==
    WorkflowDefinition("loop", <<InputDef("items", Undef)>>, <<>>,
        <<ProseNode("l1", <<Lit("Review each.")>>),
          SetNode("l2", "x", Static("before")),
          GenerationNode("l2g", "intro"),
          LoopNode("l3", "reviews", Dynamic("items"), None,
              <<ProseNode("l4", <<Lit("Item "), Ex("item"), Lit(" after "), Ex("acc")>>),
                GenerationNode("l5", "g"),
                SetNode("l6", "acc", Dynamic("g"))>>),
          ProseNode("l7", <<Lit("Summarise "), Ex("acc")>>),
          GenerationNode("l8", "post")>>)

\* Nested count loops; the body branches on the iteration number.
NestedDoc ==
    WorkflowDefinition("nested", <<InputDef("n", Undef)>>, <<>>,
        <<ProseNode("n1", <<Lit("Start")>>),
          LoopNode("n2", "outer", None, Dynamic("n"),
              <<ProseNode("n3", <<Lit("outer "), Ex("index")>>),
                LoopNode("n4", "inner", None, Dynamic("n"),
                    <<ProseNode("n5", <<Lit("inner "), Ex("index")>>),
                      SetNode("n6", "seen", Dynamic("index"))>>),
                IfNode("n7", Dynamic("index"),
                    <<SetNode("n8", "late", Static("yes"))>>,
                    TRUE,
                    <<ProseNode("n9", <<Lit("first")>>)>>),
                CommentNode("n10")>>),
          GenerationNode("n11", "end")>>)

\* If / Else on an input, an If without Else, and an If with a static text.
IfDoc ==
    WorkflowDefinition("if", <<InputDef("flag", Bool(FALSE))>>, <<>>,
        <<IfNode("i1", Dynamic("flag"),
              <<ProseNode("i2", <<Lit("Congratulations!")>>),
                GenerationNode("i3", "message")>>,
              TRUE,
              <<ProseNode("i4", <<Lit("Keep trying.")>>),
                SetNode("i5", "message", Static("none"))>>),
          IfNode("i6", Dynamic("!flag"),
              <<LogNode("i7", <<Lit("flag is "), Ex("flag")>>),
                SetNode("i8", "negated", Dynamic("true"))>>,
              FALSE, <<>>),
          ProseNode("i9", <<Lit("Done.")>>)>>)

\* A parent that maps inputs into a sub-flow.
FlowDoc ==
    WorkflowDefinition("flow", <<InputDef("topic", Str("cats"))>>, <<>>,
        <<ProseNode("f1", <<Lit("Parent about "), Ex("topic")>>),
          SetNode("f2", "x", Static("px")),
          GenerationNode("f3", "pg"),
          FlowNode("f4", "sub", "child.mdx",
              <<KV("text", Dynamic("pg")), KV("extra", Dynamic("missing"))>>),
          ProseNode("f5", <<Lit("x is "), Ex("x")>>)>>)

\* The sub-flow: a required input, two inputs with defaults.
ChildDoc ==
    WorkflowDefinition("child",
        <<InputDef("text", Undef), InputDef("tone", Str("calm")),
          InputDef("extra", Str("dflt"))>>, <<>>,
        <<ProseNode("c1", <<Ex("text"), Lit(" in tone "), Ex("tone"), Lit(" "), Ex("x")>>),
          GenerationNode("c2", "cg"),
          SetNode("c3", "x", Static("cx"))>>)

\* A parent whose sub-flow document has an unclosed tag.
FlowBadDoc ==
    WorkflowDefinition("flowbad", <<>>, <<>>,
        <<ProseNode("b1", <<Lit("Before the sub-flow.")>>),
          GenerationNode("b2", "pg"),
          FlowNode("b3", "sub", "broken.mdx", <<>>),
          GenerationNode("b4", "never")>>)

\* A parent whose sub-flow document fails validation (a Generation without
\* a name).
FlowInvalidDoc ==
    WorkflowDefinition("flowinvalid", <<>>, <<>>,
        <<FlowNode("v1", "sub", "invalid.mdx", <<>>)>>)

\* A document that fails validation.
InvalidDoc ==
    WorkflowDefinition("invalid", <<>>, <<>>,
        <<ProseNode("x1", <<Lit("No name below.")>>),
          GenerationNode("x2", "")>>)

\* A parent whose Flow names a file that does not exist.
FlowMissingDoc ==
    WorkflowDefinition("flowmissing", <<>>, <<>>,
        <<GenerationNode("m1", "pg"),
          FlowNode("m2", "sub", "nowhere.mdx", <<>>)>>)

\* Human input: a Prompt with a default, a Select, a Confirm, a Prompt
\* without default, then a generation.
InputDoc ==
    WorkflowDefinition("input", <<>>, <<>>,
        <<PromptNode("h1", "count", Static("How many?"), Dynamic("5"), "number"),
          SelectNode("h2", "tone", Static("What tone?"),
              Dynamic("[\"formal\", \"casual\"]")),
          ConfirmNode("h3", "ok", Static("Proceed?"), None),
          PromptNode("h4", "who", Static("Who?"), None, ""),
          GenerationNode("h5", "g")>>)

\* Prompts with defaults: a number expression for a text Prompt, a static
\* text, and a text that is no number for a number Prompt.
DefaultsDoc ==
    WorkflowDefinition("defaults", <<>>, <<>>,
        <<PromptNode("d1", "label", Static("Label?"), Dynamic("5"), ""),
          PromptNode("d2", "nick", Static("Nickname?"), Static("bob"), "text"),
          PromptNode("d3", "qty", Static("How many?"), Static("lots"), "number"),
          ProseNode("d4", <<Lit("Label "), Ex("label")>>)>>)

\* A Structured node between two Prose nodes.
StructDoc ==
    WorkflowDefinition("struct", <<>>, <<>>,
        <<ProseNode("t1", <<Lit("Rate the text.")>>),
          StructuredNode("t2", "verdict",
              <<FieldDef("score", "number"), FieldDef("why", "text")>>),
          ProseNode("t3", <<Lit("Thanks.")>>)>>)

\* An allow-list of a generated output, a name that is never produced, an
\* input, and a name that every object inherits.
AllowDoc ==
    WorkflowDefinition("allow", <<InputDef("topic", Str("cats"))>>,
        <<"a", "never", "topic", "constructor">>,
        <<ProseNode("a1", <<Lit("Write about "), Ex("topic")>>),
          GenerationNode("a2", "a"),
          SetNode("a3", "extra", Static("kept out"))>>)

\* Two inputs with defaults; a Set records an output under the name of the
\* first one; a Log and a comment follow, and an If whose condition is the
\* quoted text "false".
OverrideDoc ==
    WorkflowDefinition("override",
        <<InputDef("topic", Str("cats")), InputDef("tone", Str("dry"))>>, <<>>,
        <<ProseNode("o1", <<Lit("About "), Ex("topic")>>),
          SetNode("o2", "topic", Static("birds")),
          ProseNode("o3", <<Lit("Now "), Ex("topic"), Lit(", "), Ex("tone")>>),
          LogNode("o4", <<Lit("tone is "), Ex("tone")>>),
          CommentNode("o5"),
          SetNode("o6", "mood", Dynamic("tone")),
          IfNode("o7", Static("false"),
              <<SetNode("o8", "taken", Static("yes"))>>, FALSE, <<>>)>>)

\* Expressions that fail: a name bound nowhere and a text that does not
\* compile, in Prose, as If conditions and as a Set value.
FailSoftDoc ==
    WorkflowDefinition("failsoft", <<InputDef("topic", Str("cats"))>>, <<>>,
        <<ProseNode("e1", <<Lit("A "), Ex("missing"), Lit(" B "), Ex("topic +"),
                            Lit(" C "), Ex("topic")>>),
          IfNode("e2", Dynamic("missing"),
              <<SetNode("e3", "got", Static("yes"))>>,
              TRUE,
              <<SetNode("e4", "got", Static("no"))>>),
          IfNode("e5", Dynamic("topic +"),
              <<SetNode("e6", "compiled", Static("yes"))>>, FALSE, <<>>),
          SetNode("e7", "val", Dynamic("topic +")),
          ProseNode("e8", <<Lit("end")>>)>>)

\* An output named item and a Generation g before a count loop whose body
\* has a Generation g again and assigns item; then a loop named index.
ShadowDoc ==
    WorkflowDefinition("shadow", <<InputDef("n", Undef)>>, <<>>,
        <<SetNode("w1", "item", Static("outer")),
          GenerationNode("w2", "g"),
          LoopNode("w3", "rounds", None, Dynamic("n"),
              <<GenerationNode("w4", "g"),
                SetNode("w5", "item", Static("inner")),
                ProseNode("w6", <<Lit("Now "), Ex("item")>>)>>),
          LoopNode("w7", "index", None, Dynamic("n"),
              <<SetNode("w8", "seen", Dynamic("index"))>>),
          ProseNode("w9", <<Lit("Done "), Ex("item")>>)>>)

\* The files on disk.  `unclosed`: the text opens a component tag that is
\* never closed, so parseNodes throws ParseError.
Paths ==
    {"seq.mdx", "loop.mdx", "nested.mdx", "if.mdx", "flow.mdx", "child.mdx",
     "flowbad.mdx", "broken.mdx", "flowinvalid.mdx", "invalid.mdx",
     "flowmissing.mdx", "input.mdx", "defaults.mdx", "struct.mdx", "shadow.mdx",
     "allow.mdx", "override.mdx", "failsoft.mdx"}

FileText(path) ==
    CASE path = "seq.mdx" -> [unclosed |-> FALSE, def |-> SeqDoc]
      [] path = "loop.mdx" -> [unclosed |-> FALSE, def |-> LoopDoc]
      [] path = "nested.mdx" -> [unclosed |-> FALSE, def |-> NestedDoc]
      [] path = "if.mdx" -> [unclosed |-> FALSE, def |-> IfDoc]
      [] path = "flow.mdx" -> [unclosed |-> FALSE, def |-> FlowDoc]
      [] path = "child.mdx" -> [unclosed |-> FALSE, def |-> ChildDoc]
      [] path = "flowbad.mdx" -> [unclosed |-> FALSE, def |-> FlowBadDoc]
      [] path = "flowinvalid.mdx" -> [unclosed |-> FALSE, def |-> FlowInvalidDoc]
      [] path = "invalid.mdx" -> [unclosed |-> FALSE, def |-> InvalidDoc]
      [] path = "flowmissing.mdx" -> [unclosed |-> FALSE, def |-> FlowMissingDoc]
      [] path = "input.mdx" -> [unclosed |-> FALSE, def |-> InputDoc]
      [] path = "defaults.mdx" -> [unclosed |-> FALSE, def |-> DefaultsDoc]
      [] path = "struct.mdx" -> [unclosed |-> FALSE, def |-> StructDoc]
      [] path = "shadow.mdx" -> [unclosed |-> FALSE, def |-> ShadowDoc]
      [] path = "allow.mdx" -> [unclosed |-> FALSE, def |-> AllowDoc]
      [] path = "override.mdx" -> [unclosed |-> FALSE, def |-> OverrideDoc]
      [] path = "failsoft.mdx" -> [unclosed |-> FALSE, def |-> FailSoftDoc]
      [] OTHER -> [unclosed |-> TRUE, def |-> None]

\* parseWorkflow: [ok, def]; a missing file (readFileSync) and an unclosed
\* tag (ParseError) both throw.
parseWorkflow(path) ==
    IF path \notin Paths THEN [ok |-> FALSE, error |-> "ENOENT", def |-> None]
    ELSE IF FileText(path).unclosed
         THEN [ok |-> FALSE, error |-> "ParseError", def |-> None]
         ELSE [ok |-> TRUE, error |-> "", def |-> FileText(path).def]

RECURSIVE validateNodes(_)
\* validateWorkflow's walk: the error messages, in order.  The sub-flow's
\* file must exist; its contents are not looked at.
validateNodes(nodes) ==
    IF nodes = <<>> THEN <<>>
    ELSE LET node == Head(nodes)
             own ==
                CASE node.kind \in {"generation", "set"} ->
                        IF node.name = "" THEN <<"missing name">> ELSE <<>>
                  [] node.kind = "structured" ->
                        (IF node.name = "" THEN <<"missing name">> ELSE <<>>)
                        \o [i \in 1..Len(SelectSeq(node.fields, LAMBDA f :
                                    f.type \notin {"text", "number", "boolean", "list", "object"}))
                              |-> "invalid field type"]
                  [] node.kind = "loop" ->
                        (IF node.name = "" THEN <<"missing name">> ELSE <<>>)
                        \o validateNodes(node.children)
                  [] node.kind = "if" ->
                        validateNodes(node.children)
                        \o (IF node.hasElse THEN validateNodes(node.elseChildren) ELSE <<>>)
                  [] node.kind = "flow" ->
                        (IF node.name = "" THEN <<"missing name">> ELSE <<>>)
                        \o (IF node.src = "" THEN <<"missing src">>
                            ELSE IF node.src \notin Paths THEN <<"src not found">>
                            ELSE <<>>)
                  [] node.kind \in {"prompt", "select", "confirm"} ->
                        (IF node.name = "" THEN <<"missing name">> ELSE <<>>)
                        \o (IF node.message.raw = "" THEN <<"missing message">> ELSE <<>>)
                  [] OTHER -> <<>>
         IN  own \o validateNodes(Tail(nodes))

\* Faulty variant: nothing is validated.
validateWorkflowSkipped(def) == <<>>

\* validateWorkflow
validateWorkflow(def) == validateNodes(def.nodes)

\* ----------------------------------------------------- the document scanner

\* The parser works on the text of the document body.  A text is a sequence
\* of characters (one-character strings), and positions count from 0 as
\* JavaScript's do.  The backquote is written BackQuote.
BackQuote == "BACKQUOTE"

UpperCase ==
    {"A", "B", "C", "D", "E", "F", "G", "H", "I", "J", "K", "L", "M", "N",
     "O", "P", "Q", "R", "S", "T", "U", "V", "W", "X", "Y", "Z"}

LowerCase ==
    {"a", "b", "c", "d", "e", "f", "g", "h", "i", "j", "k", "l", "m", "n",
     "o", "p", "q", "r", "s", "t", "u", "v", "w", "x", "y", "z"}

Digit == {"0", "1", "2", "3", "4", "5", "6", "7", "8", "9"}

\* The class \w and the class \s of the parser's regular expressions.
WordChar == UpperCase \cup LowerCase \cup Digit \cup {"_"}
WhiteSpace == {" ", "\n", "\t", "\r"}

\* s[i]; "" stands for undefined (an index outside the text).
Ch(s, i) == IF i >= 0 /\ i < Len(s) THEN s[i + 1] ELSE ""

\* s.slice(a, b) and s.slice(a).
slice(s, a, b) == SubSeq(s, a + 1, IF b > Len(s) THEN Len(s) ELSE b)
sliceFrom(s, a) == slice(s, a, Len(s))

RECURSIVE trimStart(_)
trimStart(s) ==
    IF s # <<>> /\ Head(s) \in WhiteSpace THEN trimStart(Tail(s)) ELSE s

RECURSIVE trimEnd(_)
trimEnd(s) ==
    IF s # <<>> /\ s[Len(s)] \in WhiteSpace
    THEN trimEnd(SubSeq(s, 1, Len(s) - 1))
    ELSE s

\* s.trim()
trim(s) == trimEnd(trimStart(s))

\* s.indexOf(pat, from): the first position >= from where pat occurs, or -1.
RECURSIVE indexOf(_, _, _)
indexOf(s, pat, from) ==
    IF from + Len(pat) > Len(s) THEN -1
    ELSE IF slice(s, from, from + Len(pat)) = pat THEN from
    ELSE indexOf(s, pat, from + 1)

\* The first position >= i that holds no word character.
RECURSIVE wordEnd(_, _)
wordEnd(s, i) == IF Ch(s, i) \in WordChar THEN wordEnd(s, i + 1) ELSE i

\* The first position >= i that holds no white space.
RECURSIVE skipSpace(_, _)
skipSpace(s, i) == IF Ch(s, i) \in WhiteSpace THEN skipSpace(s, i + 1) ELSE i

\* The first position >= i that holds white space, or the end of the text.
RECURSIVE valueEnd(_, _)
valueEnd(s, i) ==
    IF i < Len(s) /\ Ch(s, i) \notin WhiteSpace THEN valueEnd(s, i + 1) ELSE i

\* The name captured by /^<([A-Z]\w*)/ at position pos; <<>> when the
\* expression does not match there.
tagNameAt(s, pos) ==
    IF Ch(s, pos) = "<" /\ Ch(s, pos + 1) \in UpperCase
    THEN slice(s, pos + 1, wordEnd(s, pos + 2))
    ELSE <<>>

\* The cursor of a loop that skips a double-quoted string: i starts after
\* the opening quote and stops on the closing quote or past the end; a
\* backslash skips the character after it.
RECURSIVE quoteStop(_, _)
quoteStop(s, i) ==
    IF i < Len(s) /\ Ch(s, i) # "\""
    THEN quoteStop(s, IF Ch(s, i) = "\\" THEN i + 2 ELSE i + 1)
    ELSE i

\* findMatchingBrace: the position of the brace that closes the one at
\* `start`, or -1.  Braces in '...', "..." and backquoted strings do not
\* count, except those of a ${...} inside a backquoted string, which are
\* matched on their own.
RECURSIVE braceLoop(_, _, _)
RECURSIVE stringLoop(_, _, _)

stringLoop(str, i, quote) ==
    IF i >= Len(str) THEN i
    ELSE IF Ch(str, i) = "\\" THEN stringLoop(str, i + 2, quote)
    ELSE IF Ch(str, i) = quote THEN i
    ELSE IF quote = BackQuote /\ Ch(str, i) = "$" /\ Ch(str, i + 1) = "{"
    THEN LET end == braceLoop(str, i + 1, 0)
         IN  IF end = -1 THEN -1 ELSE stringLoop(str, end + 1, quote)
    ELSE stringLoop(str, i + 1, quote)

braceLoop(str, i, depth) ==
    IF i >= Len(str) THEN -1
    ELSE IF Ch(str, i) = "{" THEN braceLoop(str, i + 1, depth + 1)
    ELSE IF Ch(str, i) = "}"
    THEN IF depth - 1 = 0 THEN i ELSE braceLoop(str, i + 1, depth - 1)
    ELSE IF Ch(str, i) \in {"\"", "'", BackQuote}
    THEN LET stop == stringLoop(str, i + 1, Ch(str, i))
         IN  IF stop = -1 THEN -1 ELSE braceLoop(str, stop + 1, depth)
    ELSE braceLoop(str, i + 1, depth)

findMatchingBrace(str, start) == braceLoop(str, start, 0)

\* A tag the scanner recognised: its name, its attribute text, the position
\* of its '<' and the position after it.  NoTag is the matchers' null.
NoTag == [found |-> FALSE]

TagMatch(name, attrs, start, end) ==
    [found |-> TRUE, name |-> name, attrs |-> attrs, start |-> start, end |-> end]

\* The walk of matchSelfClosingTag from position i of the tag `name` that
\* starts at pos: {...} and "..." are stepped over, "/>" ends the tag, and
\* a '>' or a '<' met before it means that the tag is not self-closing.
RECURSIVE selfClosingLoop(_, _, _, _)
selfClosingLoop(source, pos, name, i) ==
    IF i >= Len(source) THEN NoTag
    ELSE IF Ch(source, i) = "{"
    THEN LET end == findMatchingBrace(source, i)
         IN  IF end = -1 THEN NoTag ELSE selfClosingLoop(source, pos, name, end + 1)
    ELSE IF Ch(source, i) = "\""
    THEN selfClosingLoop(source, pos, name, quoteStop(source, i + 1) + 1)
    ELSE IF Ch(source, i) = "/" /\ Ch(source, i + 1) = ">"
    THEN TagMatch(name, trim(slice(source, pos + 1 + Len(name), i)), pos, i + 2)
    ELSE IF Ch(source, i) \in {">", "<"} THEN NoTag
    ELSE selfClosingLoop(source, pos, name, i + 1)

selfClosingNamed(source, pos, name) ==
    IF name = <<>> THEN NoTag
    ELSE selfClosingLoop(source, pos, name, pos + 1 + Len(name))

matchSelfClosingTag(source, pos) ==
    selfClosingNamed(source, pos, tagNameAt(source, pos))

\* The walk of matchOpeningTag: {...} is stepped over, "/>" means that the
\* tag is self-closing, and the first '>' met otherwise ends the tag.
RECURSIVE openingLoop(_, _, _, _)
openingLoop(source, pos, name, i) ==
    IF i >= Len(source) THEN NoTag
    ELSE IF Ch(source, i) = "{"
    THEN LET end == findMatchingBrace(source, i)
         IN  IF end = -1 THEN NoTag ELSE openingLoop(source, pos, name, end + 1)
    ELSE IF Ch(source, i) = "/" /\ Ch(source, i + 1) = ">" THEN NoTag
    ELSE IF Ch(source, i) = ">"
    THEN TagMatch(name, trim(slice(source, pos + 1 + Len(name), i)), pos, i + 1)
    ELSE openingLoop(source, pos, name, i + 1)

openingNamed(source, pos, name) ==
    IF name = <<>> THEN NoTag
    ELSE openingLoop(source, pos, name, pos + 1 + Len(name))

matchOpeningTag(source, pos) ==
    openingNamed(source, pos, tagNameAt(source, pos))

\* The length of the match of /<\/Name\s*>/ at position i, 0 when it does
\* not match there.
closeMatchLength(source, tagName, i) ==
    IF /\ slice(source, i, i + 2 + Len(tagName)) = <<"<", "/">> \o tagName
       /\ Ch(source, skipSpace(source, i + 2 + Len(tagName))) = ">"
    THEN skipSpace(source, i + 2 + Len(tagName)) + 1 - i
    ELSE 0

\* findClosingTag: the position of the closing tag that matches an opening
\* tag whose content starts at startIdx, counting the opening tags of the
\* same name met on the way; -1 when there is none.
RECURSIVE closingLoop(_, _, _, _)

\* One turn of its loop, given what the two matchers and the closing-tag
\* expression find at i.
closingTurn(source, tagName, i, depth, selfCloseMatch, openMatch, closeLength) ==
    IF selfCloseMatch.found /\ selfCloseMatch.name = tagName
    THEN closingLoop(source, tagName, selfCloseMatch.end, depth)
    ELSE IF openMatch.found /\ openMatch.name = tagName
    THEN closingLoop(source, tagName, openMatch.end, depth + 1)
    ELSE IF closeLength > 0
    THEN IF depth - 1 = 0 THEN i
         ELSE closingLoop(source, tagName, i + closeLength, depth - 1)
    ELSE closingLoop(source, tagName, i + 1, depth)

closingLoop(source, tagName, i, depth) ==
    IF i >= Len(source) THEN -1
    ELSE closingTurn(source, tagName, i, depth,
                     matchSelfClosingTag(source, i), matchOpeningTag(source, i),
                     closeMatchLength(source, tagName, i))

findClosingTag(source, tagName, startIdx) ==
    closingLoop(source, tagName, startIdx, 1)

\* source.slice(0, pos).split("\n").length
lineAt(source, pos) ==
    1 + Len(SelectSeq(slice(source, 0, pos), LAMBDA c : c = "\n"))

\* --- props

makeExpression(raw) == [raw |-> raw, isStatic |-> FALSE]
makeStaticExpression(raw) == [raw |-> raw, isStatic |-> TRUE]

\* props[key] = e on the props so far: a key given twice keeps its place
\* and takes the later value.
setProp(props, key, e) ==
    IF \E n \in 1..Len(props) : props[n].k = key
    THEN [n \in 1..Len(props) |->
            IF props[n].k = key THEN [k |-> key, v |-> e] ELSE props[n]]
    ELSE Append(props, [k |-> key, v |-> e])

hasProp(props, key) == \E n \in 1..Len(props) : props[n].k = key

prop(props, key) ==
    props[CHOOSE n \in 1..Len(props) : props[n].k = key].v

\* The value of a double-quoted prop: i starts after the opening quote; a
\* backslash is dropped and the character after it kept.
RECURSIVE quotedValue(_, _, _)
quotedValue(s, i, val) ==
    IF i < Len(s) /\ Ch(s, i) # "\""
    THEN IF Ch(s, i) = "\\"
         THEN quotedValue(s, i + 2,
                          IF i + 1 < Len(s) THEN Append(val, Ch(s, i + 1)) ELSE val)
         ELSE quotedValue(s, i + 1, Append(val, Ch(s, i)))
    ELSE val

\* parseProps: the loop over the trimmed attribute text, from position i.
RECURSIVE propsLoop(_, _, _)

\* The value of `key`, which starts at position val: "...", {...} or a
\* bare word.
propValue(s, props, key, val) ==
    IF Ch(s, val) = "\""
    THEN propsLoop(s, quoteStop(s, val + 1) + 1,
                   setProp(props, key,
                           makeStaticExpression(quotedValue(s, val + 1, <<>>))))
    ELSE IF Ch(s, val) = "{"
    THEN LET end == findMatchingBrace(s, val)
         IN  IF end = -1
             THEN setProp(props, key, makeExpression(sliceFrom(s, val + 1)))
             ELSE propsLoop(s, end + 1,
                            setProp(props, key,
                                    makeExpression(trim(slice(s, val + 1, end)))))
    ELSE propsLoop(s, valueEnd(s, val),
                   setProp(props, key,
                           makeStaticExpression(slice(s, val, valueEnd(s, val)))))

\* What follows `key`: with no '=' at position eq the prop is the static
\* "true".
propAssign(s, props, key, eq) ==
    IF Ch(s, eq) # "="
    THEN propsLoop(s, eq, setProp(props, key,
                                  makeStaticExpression(<<"t", "r", "u", "e">>)))
    ELSE propValue(s, props, key, skipSpace(s, eq + 1))

\* The key between keyStart and keyEnd.
propKey(s, props, keyStart, keyEnd) ==
    IF keyStart >= Len(s) THEN props
    ELSE IF keyEnd = keyStart THEN propsLoop(s, keyStart + 1, props)
    ELSE propAssign(s, props, slice(s, keyStart, keyEnd), skipSpace(s, keyEnd))

propsLoop(s, i, props) ==
    IF i >= Len(s) THEN props
    ELSE propKey(s, props, skipSpace(s, i), wordEnd(s, skipSpace(s, i)))

parseProps(attrStr) == propsLoop(trim(attrStr), 0, <<>>)

\* --- nodes

\* The component names, as texts.
GenerationTag == <<"G", "e", "n", "e", "r", "a", "t", "i", "o", "n">>
StructuredTag == <<"S", "t", "r", "u", "c", "t", "u", "r", "e", "d">>
WebSearchTag == <<"W", "e", "b", "S", "e", "a", "r", "c", "h">>
WebFetchTag == <<"W", "e", "b", "F", "e", "t", "c", "h">>
LoopTag == <<"L", "o", "o", "p">>
IfTag == <<"I", "f">>
ElseTag == <<"E", "l", "s", "e">>
SetTag == <<"S", "e", "t">>
LogTag == <<"L", "o", "g">>
CommentTag == <<"C", "o", "m", "m", "e", "n", "t">>
FlowTag == <<"F", "l", "o", "w">>
FieldTag == <<"F", "i", "e", "l", "d">>
PromptTag == <<"P", "r", "o", "m", "p", "t">>
SelectTag == <<"S", "e", "l", "e", "c", "t">>
ConfirmTag == <<"C", "o", "n", "f", "i", "r", "m">>

KNOWN_COMPONENTS ==
    {GenerationTag, StructuredTag, WebSearchTag, WebFetchTag, LoopTag,
     IfTag, ElseTag, SetTag, LogTag, CommentTag,
     FlowTag, FieldTag, PromptTag, SelectTag, ConfirmTag}

\* The components whose node is built from the props of the tag alone, and
\* the kind of the node.
PropsOnly ==
    {GenerationTag, WebSearchTag, WebFetchTag, SetTag, FlowTag, PromptTag,
     SelectTag, ConfirmTag}

kindOf(name) ==
    CASE name = GenerationTag -> "generation"
      [] name = WebSearchTag -> "websearch"
      [] name = WebFetchTag -> "webfetch"
      [] name = SetTag -> "set"
      [] name = FlowTag -> "flow"
      [] name = PromptTag -> "prompt"
      [] name = SelectTag -> "select"
      [] name = ConfirmTag -> "confirm"

\* Parsed nodes keep the props the builders read from, under `props`.
ParsedProse(content) == [kind |-> "prose", content |-> content]
ParsedComment == [kind |-> "comment"]
NullNode == [kind |-> "null"]

\* A ParseError and its line.
ParseError(message, name, line) ==
    [message |-> message, name |-> name, line |-> line]

NoError == [message |-> ""]

\* What a call of parseNodes is doing: its cursor, the prose gathered since
\* the last node, the nodes built, and how it ended ("scanning" while it has
\* not: "returned", or "thrown" with the error).
ScanStart ==
    [i |-> 0, proseBuffer |-> <<>>, nodes |-> <<>>, state |-> "scanning",
     error |-> NoError]

flushProse(st) ==
    [st EXCEPT !.proseBuffer = <<>>,
               !.nodes = IF trim(st.proseBuffer) # <<>>
                         THEN Append(@, ParsedProse(trim(st.proseBuffer)))
                         ELSE @]

throw(st, error) == [st EXCEPT !.state = "thrown", !.error = error]

\* nodes.push(node) unless the builder returned null; the cursor moves to i.
pushNode(st, i, node) ==
    [st EXCEPT !.i = i, !.nodes = IF node # NullNode THEN Append(@, node) ELSE @]

\* buildNodeFromSelfClosing, given the props parsed from the tag.
selfClosingNode(name, props) ==
    IF name \in PropsOnly THEN [kind |-> kindOf(name), props |-> props]
    ELSE IF name = FieldTag THEN NullNode
    ELSE IF name = LogTag THEN [kind |-> "log", props |-> props, content |-> <<>>]
    ELSE IF name = CommentTag THEN ParsedComment
    ELSE ParsedProse(<<"<">> \o name \o <<" ", "/", ">">>)

buildNodeFromSelfClosing(tag) == selfClosingNode(tag.name, parseProps(tag.attrs))

\* parseFieldChildren: the Field tags of the inner text of a Structured
\* block; everything else in it is stepped over.
RECURSIVE fieldLoop(_, _, _)

fieldBlock(source, i, fields, open, closeIdx) ==
    IF closeIdx # -1
    THEN fieldLoop(source, closeIdx + 8,
                   Append(fields,
                          [props |-> parseProps(open.attrs),
                           children |-> fieldLoop(slice(source, open.end, closeIdx),
                                                  0, <<>>)]))
    ELSE fieldLoop(source, i + 1, fields)

fieldTurn(source, i, fields, selfClose, open) ==
    IF selfClose.found /\ selfClose.name = FieldTag
    THEN fieldLoop(source, selfClose.end,
                   Append(fields, [props |-> parseProps(selfClose.attrs),
                                   children |-> <<>>]))
    ELSE IF open.found /\ open.name = FieldTag
    THEN fieldBlock(source, i, fields, open,
                    findClosingTag(source, FieldTag, open.end))
    ELSE fieldLoop(source, i + 1, fields)

fieldLoop(source, i, fields) ==
    IF i >= Len(source) THEN fields
    ELSE fieldTurn(source, i, fields, matchSelfClosingTag(source, i),
                   matchOpeningTag(source, i))

parseFieldChildren(source) == fieldLoop(source, 0, <<>>)

\* The cursor of tryParseElse after the white space and the comments that
\* follow an If block.
RECURSIVE elseStart(_, _)
elseStart(source, i) ==
    IF i >= Len(source) THEN i
    ELSE IF Ch(source, i) \in WhiteSpace THEN elseStart(source, i + 1)
    ELSE IF /\ slice(source, i, i + 3) = <<"{", "/", "*">>
            /\ indexOf(source, <<"*", "/", "}">>, i + 3) # -1
    THEN elseStart(source, indexOf(source, <<"*", "/", "}">>, i + 3) + 3)
    ELSE i

RECURSIVE parseLoop(_, _)

\* parseNodes: the nodes of a text, or the ParseError it throws.
parseNodes(source) == parseLoop(source, ScanStart)

\* A Loop or an If around the nodes of its inner text; the error is the one
\* parseNodes threw on that text.
containerNode(name, props, body) ==
    [error |-> body.error,
     node |-> [kind |-> IF name = LoopTag THEN "loop" ELSE "if", props |-> props,
               children |-> body.nodes]]

\* buildNodeFromBlock, given the props parsed from the tag: [error, node].
blockNode(name, props, inner) ==
    IF name = StructuredTag
    THEN [error |-> NoError,
          node |-> [kind |-> "structured", props |-> props,
                    fields |-> parseFieldChildren(inner)]]
    ELSE IF name \in {LoopTag, IfTag} THEN containerNode(name, props, parseNodes(inner))
    ELSE IF name = ElseTag THEN [error |-> NoError, node |-> NullNode]
    ELSE IF name = LogTag
    THEN [error |-> NoError,
          node |-> [kind |-> "log", props |-> props, content |-> trim(inner)]]
    ELSE IF name = CommentTag THEN [error |-> NoError, node |-> ParsedComment]
    ELSE IF name = GenerationTag
    THEN [error |-> NoError, node |-> [kind |-> "generation", props |-> props]]
    ELSE [error |-> NoError,
          node |-> ParsedProse(<<"<">> \o name \o <<">">> \o inner
                               \o <<"<", "/">> \o name \o <<">">>)]

buildNodeFromBlock(tag, inner) == blockNode(tag.name, parseProps(tag.attrs), inner)

\* tryParseElse: [found, error, children, end]; NoElse is its null.
NoElse == [found |-> FALSE, error |-> NoError]

elseChildren(body, end) ==
    [found |-> TRUE, error |-> body.error, children |-> body.nodes, end |-> end]

elseBlock(source, open, closeIdx) ==
    IF closeIdx = -1 THEN NoElse
    ELSE elseChildren(parseNodes(slice(source, open.end, closeIdx)), closeIdx + 7)

elseAt(source, selfClose, open) ==
    IF selfClose.found /\ selfClose.name = ElseTag
    THEN [found |-> TRUE, error |-> NoError, children |-> <<>>, end |-> selfClose.end]
    ELSE IF ~open.found \/ open.name # ElseTag THEN NoElse
    ELSE elseBlock(source, open, findClosingTag(source, ElseTag, open.end))

elseFrom(source, i) ==
    elseAt(source, matchSelfClosingTag(source, i), matchOpeningTag(source, i))

tryParseElse(source, pos) == elseFrom(source, elseStart(source, pos))

isComponentName(name) == name # <<>> /\ Head(name) \in UpperCase

\* Which branch of the loop of parseNodes is taken at position i.
stepKind(source, i) ==
    IF i >= Len(source) THEN "end"
    ELSE IF slice(source, i, i + 3) = <<"{", "/", "*">> THEN "comment"
    ELSE IF matchSelfClosingTag(source, i).found THEN "selfClosing"
    ELSE IF matchOpeningTag(source, i).found THEN "block"
    ELSE IF Ch(source, i) = "<" /\ isComponentName(tagNameAt(source, i)) THEN "broken"
    ELSE IF /\ Ch(source, i) = "<"
            /\ Ch(source, i + 1) = "/"
            /\ indexOf(source, <<">">>, i) # -1
    THEN "closing"
    ELSE "prose"

\* The {/* ... */} branch: an unterminated comment ends the loop.
commentStep(source, st) ==
    IF indexOf(source, <<"*", "/", "}">>, st.i + 3) = -1
    THEN [flushProse(st) EXCEPT !.state = "returned"]
    ELSE [flushProse(st) EXCEPT
            !.i = indexOf(source, <<"*", "/", "}">>, st.i + 3) + 3,
            !.nodes = Append(@, ParsedComment)]

\* The self-closing branch, for the tag at the cursor.
selfClosingStep(st, selfClose) ==
    pushNode(flushProse(st), selfClose.end, buildNodeFromSelfClosing(selfClose))

\* The block branch after an If was built: its Else, when one follows.
ifBuilt(st, closeTagEnd, node, elseResult) ==
    IF elseResult.error # NoError THEN throw(st, elseResult.error)
    ELSE IF elseResult.found
    THEN pushNode(st, elseResult.end,
                  [kind |-> "if", props |-> node.props, children |-> node.children,
                   elseChildren |-> elseResult.children])
    ELSE pushNode(st, closeTagEnd, node)

\* The block branch after buildNodeFromBlock.
blockBuilt(source, st, closeTagEnd, built) ==
    IF built.error # NoError THEN throw(st, built.error)
    ELSE IF built.node.kind = "if"
    THEN ifBuilt(st, closeTagEnd, built.node, tryParseElse(source, closeTagEnd))
    ELSE pushNode(st, closeTagEnd, built.node)

\* The block branch after findClosingTag.
blockClosed(source, st, open, closeIdx) ==
    IF closeIdx = -1
    THEN throw(st, ParseError("Unclosed tag", open.name, lineAt(source, open.start)))
    ELSE blockBuilt(source, st, closeIdx + Len(open.name) + 3,
                    buildNodeFromBlock(open, slice(source, open.end, closeIdx)))

\* The block branch, for the opening tag at the cursor.
blockStep(source, st, open) ==
    blockClosed(source, flushProse(st), open,
                findClosingTag(source, open.name, open.end))

\* The branch of a tag name that neither matcher accepted.
brokenStep(source, st) ==
    throw(st, ParseError("Expected closing tag or self-closing",
                         tagNameAt(source, st.i), lineAt(source, st.i)))

\* The branch of a stray closing tag.
closingStep(source, st) == [st EXCEPT !.i = indexOf(source, <<">">>, st.i) + 1]

\* The prose branch.
proseStep(source, st) ==
    [st EXCEPT !.i = @ + 1, !.proseBuffer = Append(@, Ch(source, st.i))]

\* After the loop.
returnStep(st) == [flushProse(st) EXCEPT !.state = "returned"]

\* One turn of the loop of parseNodes, or what follows the loop.
parseTurn(source, st, kind) ==
    CASE kind = "end" -> returnStep(st)
      [] kind = "comment" -> commentStep(source, st)
      [] kind = "selfClosing" -> selfClosingStep(st, matchSelfClosingTag(source, st.i))
      [] kind = "block" -> blockStep(source, st, matchOpeningTag(source, st.i))
      [] kind = "broken" -> brokenStep(source, st)
      [] kind = "closing" -> closingStep(source, st)
      [] kind = "prose" -> proseStep(source, st)

parseLoop(source, st) ==
    IF st.state = "scanning"
    THEN parseLoop(source, parseTurn(source, st, stepKind(source, st.i)))
    ELSE st

\* --- validation of what the scanner built

\* node.name, node.src and node.message.raw as the builders set them: the
\* raw text of the prop, or "" when the prop is not given.
rawOf(node, key) == IF hasProp(node.props, key) THEN prop(node.props, key).raw ELSE <<>>

\* The names that /<([A-Z]\w*)/g finds in a text from position i on, in
\* order.
RECURSIVE tagNamesIn(_, _)
tagNamesIn(content, i) ==
    IF i >= Len(content) THEN <<>>
    ELSE IF tagNameAt(content, i) # <<>>
    THEN <<tagNameAt(content, i)>>
         \o tagNamesIn(content, i + 1 + Len(tagNameAt(content, i)))
    ELSE tagNamesIn(content, i + 1)

Missing(what) == [message |-> "missing prop", name |-> what]

\* checkUnknownComponents: one error for every tag-like name of a prose
\* text that is not a known component.
checkUnknownComponents(content) ==
    [n \in 1..Len(SelectSeq(tagNamesIn(content, 0),
                            LAMBDA name : name \notin KNOWN_COMPONENTS)) |->
        [message |-> "Unknown component",
         name |-> SelectSeq(tagNamesIn(content, 0),
                            LAMBDA name : name \notin KNOWN_COMPONENTS)[n]]]

RECURSIVE validateFields(_)
validateFields(fields) ==
    IF fields = <<>> THEN <<>>
    ELSE (IF /\ hasProp(Head(fields).props, <<"t", "y", "p", "e">>)
             /\ prop(Head(fields).props, <<"t", "y", "p", "e">>).raw \notin
                    {<<"t", "e", "x", "t">>, <<"n", "u", "m", "b", "e", "r">>,
                     <<"b", "o", "o", "l", "e", "a", "n">>, <<"l", "i", "s", "t">>,
                     <<"o", "b", "j", "e", "c", "t">>}
          THEN <<[message |-> "Invalid field type",
                  name |-> prop(Head(fields).props, <<"t", "y", "p", "e">>).raw]>>
          ELSE <<>>)
         \o validateFields(Head(fields).children)
         \o validateFields(Tail(fields))

\* validateWorkflow's walk over the nodes the scanner built, without a base
\* path: the errors, in order.
RECURSIVE validateParsed(_)
validateParsed(nodes) ==
    IF nodes = <<>> THEN <<>>
    ELSE LET node == Head(nodes)
             name == IF rawOf(node, <<"n", "a", "m", "e">>) = <<>>
                     THEN <<Missing("name")>> ELSE <<>>
             own ==
                CASE node.kind \in {"generation", "websearch", "webfetch", "set"} -> name
                  [] node.kind = "structured" -> name \o validateFields(node.fields)
                  [] node.kind = "loop" -> name \o validateParsed(node.children)
                  [] node.kind = "if" ->
                        validateParsed(node.children)
                        \o (IF "elseChildren" \in DOMAIN node
                            THEN validateParsed(node.elseChildren) ELSE <<>>)
                  [] node.kind = "flow" ->
                        name \o (IF rawOf(node, <<"s", "r", "c">>) = <<>>
                                 THEN <<Missing("src")>> ELSE <<>>)
                  [] node.kind \in {"prompt", "select", "confirm"} ->
                        name \o (IF rawOf(node, <<"m", "e", "s", "s", "a", "g", "e">>) = <<>>
                                 THEN <<Missing("message")>> ELSE <<>>)
                  [] node.kind = "prose" -> checkUnknownComponents(node.content)
                  [] OTHER -> <<>>
         IN  own \o validateParsed(Tail(nodes))

\* --- the document bodies the scanner is run on

\* An If that is never closed, on line 2:
\*     Hi
\*     <If condition={a}>
\*     yes
\*     
UnclosedText ==
    <<"H", "i", "\n", "<", "I", "f", " ", "c", "o", "n", "d", "i", "t", "i",
      "o", "n", "=", "{", "a", "}", ">", "\n", "y", "e", "s", "\n">>

\* An If that is never closed, on line 4, in a Loop that is closed:
\*     A
\*     <Loop name="r" count={2}>
\*     B
\*     <If condition={a}>
\*     C
\*     </Loop>
NestedUnclosedText ==
    <<"A", "\n", "<", "L", "o", "o", "p", " ", "n", "a", "m", "e", "=", "\"",
      "r", "\"", " ", "c", "o", "u", "n", "t", "=", "{", "2", "}", ">", "\n",
      "B", "\n", "<", "I", "f", " ", "c", "o", "n", "d", "i", "t", "i", "o",
      "n", "=", "{", "a", "}", ">", "\n", "C", "\n", "<", "/", "L", "o", "o",
      "p", ">">>

\* Two Ifs and one closing tag: the outer If is never closed:
\*     <If condition={a}><If condition={b}>x</If>
DepthText ==
    <<"<", "I", "f", " ", "c", "o", "n", "d", "i", "t", "i", "o", "n", "=",
      "{", "a", "}", ">", "<", "I", "f", " ", "c", "o", "n", "d", "i", "t",
      "i", "o", "n", "=", "{", "b", "}", ">", "x", "<", "/", "I", "f", ">">>

\* Two Ifs, both closed:
\*     <If condition={a}><If condition={b}>x</If>y</If>
DepthClosedText ==
    <<"<", "I", "f", " ", "c", "o", "n", "d", "i", "t", "i", "o", "n", "=",
      "{", "a", "}", ">", "<", "I", "f", " ", "c", "o", "n", "d", "i", "t",
      "i", "o", "n", "=", "{", "b", "}", ">", "x", "<", "/", "I", "f", ">",
      "y", "<", "/", "I", "f", ">">>

\* An Else that is never closed:
\*     <If condition={a}>x</If><Else>y
UnclosedElseText ==
    <<"<", "I", "f", " ", "c", "o", "n", "d", "i", "t", "i", "o", "n", "=",
      "{", "a", "}", ">", "x", "<", "/", "I", "f", ">", "<", "E", "l", "s",
      "e", ">", "y">>

\* A tag that never ends:
\*     a <Set name
BrokenText ==
    <<"a", " ", "<", "S", "e", "t", " ", "n", "a", "m", "e">>

\* A '>' in a quoted attribute of an opening tag:
\*     <If condition="a > b">y</If>
QuotedOpenText ==
    <<"<", "I", "f", " ", "c", "o", "n", "d", "i", "t", "i", "o", "n", "=",
      "\"", "a", " ", ">", " ", "b", "\"", ">", "y", "<", "/", "I", "f", ">">>

\* A brace in a quoted attribute of an opening tag:
\*     <If condition="{">y</If>
QuotedBraceText ==
    <<"<", "I", "f", " ", "c", "o", "n", "d", "i", "t", "i", "o", "n", "=",
      "\"", "{", "\"", ">", "y", "<", "/", "I", "f", ">">>

\* A '>' in a quoted attribute of a self-closing tag:
\*     <Set name="v" value="a > b" />
QuotedSelfText ==
    <<"<", "S", "e", "t", " ", "n", "a", "m", "e", "=", "\"", "v", "\"", " ",
      "v", "a", "l", "u", "e", "=", "\"", "a", " ", ">", " ", "b", "\"", " ",
      "/", ">">>

\* A '/>' in a quoted attribute of a self-closing tag:
\*     <Set name="v" value="a /> b" />
QuotedSlashText ==
    <<"<", "S", "e", "t", " ", "n", "a", "m", "e", "=", "\"", "v", "\"", " ",
      "v", "a", "l", "u", "e", "=", "\"", "a", " ", "/", ">", " ", "b", "\"",
      " ", "/", ">">>

\* Nested braces and a brace in a string of an expression:
\*     <Set name="v" value={ {k: "}"} } />
BraceText ==
    <<"<", "S", "e", "t", " ", "n", "a", "m", "e", "=", "\"", "v", "\"", " ",
      "v", "a", "l", "u", "e", "=", "{", " ", "{", "k", ":", " ", "\"", "}",
      "\"", "}", " ", "}", " ", "/", ">">>

\* A '>' in the expression of an opening tag:
\*     <If condition={a > 1}>y</If>
BraceOpenText ==
    <<"<", "I", "f", " ", "c", "o", "n", "d", "i", "t", "i", "o", "n", "=",
      "{", "a", " ", ">", " ", "1", "}", ">", "y", "<", "/", "I", "f", ">">>

\* A template literal with ${...}, a brace in a string and a '>':
\*     <Set name="v" value={'a${"}"}>'} />
TemplateText ==
    <<"<", "S", "e", "t", " ", "n", "a", "m", "e", "=", "\"", "v", "\"", " ",
      "v", "a", "l", "u", "e", "=", "{", BackQuote, "a", "$", "{", "\"", "}",
      "\"", "}", ">", BackQuote, "}", " ", "/", ">">>

\* An unknown self-closing tag:
\*     <Foo bar="1" />
UnknownSelfText ==
    <<"<", "F", "o", "o", " ", "b", "a", "r", "=", "\"", "1", "\"", " ", "/",
      ">">>

\* An unknown block after prose:
\*     see <Foo>x</Foo>
UnknownBlockText ==
    <<"s", "e", "e", " ", "<", "F", "o", "o", ">", "x", "<", "/", "F", "o",
      "o", ">">>

\* An unknown tag in the body of a Loop:
\*     <Loop name="r" count={1}><Bar /></Loop>
UnknownInLoopText ==
    <<"<", "L", "o", "o", "p", " ", "n", "a", "m", "e", "=", "\"", "r", "\"",
      " ", "c", "o", "u", "n", "t", "=", "{", "1", "}", ">", "<", "B", "a",
      "r", " ", "/", ">", "<", "/", "L", "o", "o", "p", ">">>

\* An unknown tag in the body of a Log:
\*     <Log><Foo /></Log>
UnknownInLogText ==
    <<"<", "L", "o", "g", ">", "<", "F", "o", "o", " ", "/", ">", "<", "/",
      "L", "o", "g", ">">>

\* An unknown tag in the body of a Structured:
\*     <Structured name="s"><Feild name="a" /></Structured>
UnknownInStructuredText ==
    <<"<", "S", "t", "r", "u", "c", "t", "u", "r", "e", "d", " ", "n", "a",
      "m", "e", "=", "\"", "s", "\"", ">", "<", "F", "e", "i", "l", "d", " ",
      "n", "a", "m", "e", "=", "\"", "a", "\"", " ", "/", ">", "<", "/", "S",
      "t", "r", "u", "c", "t", "u", "r", "e", "d", ">">>

\* A comment, prose and a stray closing tag:
\*     {/* c */}ok</If>
CommentText ==
    <<"{", "/", "*", " ", "c", " ", "*", "/", "}", "o", "k", "<", "/", "I",
      "f", ">">>

\* An If with its Else:
\*     <If condition={a}>x</If>
\*     <Else>y</Else>
ElseText ==
    <<"<", "I", "f", " ", "c", "o", "n", "d", "i", "t", "i", "o", "n", "=",
      "{", "a", "}", ">", "x", "<", "/", "I", "f", ">", "\n", "<", "E", "l",
      "s", "e", ">", "y", "<", "/", "E", "l", "s", "e", ">">>

\* Prose with an interpolation:
\*     Write a poem about {topic}.
ProseText ==
    <<"W", "r", "i", "t", "e", " ", "a", " ", "p", "o", "e", "m", " ", "a",
      "b", "o", "u", "t", " ", "{", "t", "o", "p", "i", "c", "}", ".">>

\* An escaped quote and a '>' in a quoted attribute:
\*     <Set name="v" value="a \" > b" />
EscapedQuoteText ==
    <<"<", "S", "e", "t", " ", "n", "a", "m", "e", "=", "\"", "v", "\"", " ",
      "v", "a", "l", "u", "e", "=", "\"", "a", " ", "\\", "\"", " ", ">",
      " ", "b", "\"", " ", "/", ">">>

Sources ==
    {ProseText, EscapedQuoteText,
     UnclosedText, NestedUnclosedText, DepthText, DepthClosedText,
     UnclosedElseText, BrokenText, QuotedOpenText, QuotedBraceText,
     QuotedSelfText, QuotedSlashText, BraceText, BraceOpenText, TemplateText,
     UnknownSelfText, UnknownBlockText, UnknownInLoopText, UnknownInLogText,
     UnknownInStructuredText, CommentText, ElseText}

\* parseNodes called on a text: ScanStart with the text, the tags the loop
\* met at its cursor so far (history) and the errors validateWorkflow
\* returned for the nodes.
ScanOf(source) ==
    [source |-> source, i |-> 0, proseBuffer |-> <<>>, nodes |-> <<>>,
     state |-> "scanning", error |-> NoError, met |-> <<>>, errors |-> <<>>]

\* No call of parseNodes is followed.
ScanOff == [ScanOf(<<>>) EXCEPT !.state = "off"]

\* --------------------------------------------------------- the session store

\* The most SessionManager instances made, and the most calls begun on them.
MaxManagers == 2
MaxCalls == 3

\* resolve() over path segments: "." and "" are dropped, ".." takes the
\* segment before it away.
RECURSIVE resolveSegments(_, _)
resolveSegments(resolved, rest) ==
    IF rest = <<>> THEN resolved
    ELSE IF Head(rest) \in {".", ""} THEN resolveSegments(resolved, Tail(rest))
    ELSE IF Head(rest) = ".."
    THEN resolveSegments(IF resolved = <<>> THEN <<>>
                         ELSE SubSeq(resolved, 1, Len(resolved) - 1), Tail(rest))
    ELSE resolveSegments(Append(resolved, Head(rest)), Tail(rest))

resolve(segments) == resolveSegments(<<>>, segments)

\* The agent's directory.
agentPath == <<"agents", "bot">>

\* The session IDs the managers are made for, each written as the segments its
\* text has between slashes: main, work and ./main.
SessionIds == {<<"main">>, <<"work">>, <<".", "main">>}

\* The two paths the constructor computes from the session ID.
sessionPath(sessionId) == resolve(agentPath \o <<"sessions">> \o sessionId)
historyPath(sessionId) == resolve(sessionPath(sessionId) \o <<"history.json">>)

\* The messages of a conversation, and the lists saveMessages is called with.
UserMessage == Obj(<<KV("role", Str("user")), KV("content", Str("hi"))>>)
AssistantMessage ==
    Obj(<<KV("role", Str("assistant")),
          KV("content", Arr(<<Obj(<<KV("type", Str("text")), KV("text", Str("yo"))>>)>>))>>)
MessageLists == {<<UserMessage>>, <<UserMessage, AssistantMessage>>}

\* saveMessages that adds to the history instead of replacing it.
SavedTextAppending(old, messages) == JsonStringify(Arr(old \o messages))

\* The text saveMessages writes for `messages` over the history `old`.
SavedText(old, messages) == JsonStringify(Arr(messages))

\* The message lists a history file can hold.
Histories ==
    {<<>>} \cup MessageLists \cup {a \o b : a \in MessageLists, b \in MessageLists}

\* The text of each of them, and JSON.parse of a history file: the list
\* whose text it is, when it is one.
HistoryTexts == [h \in Histories |-> JsonStringify(Arr(h))]

HistoryParse(text) ==
    LET parsed == {h \in Histories : HistoryTexts[h] = text}
    IN  IF parsed = {} THEN [ok |-> FALSE, value |-> <<>>]
        ELSE [ok |-> TRUE, value |-> CHOOSE h \in parsed : TRUE]

\* An empty sessions directory.
NoDisk == [dirs |-> {}, files |-> <<>>]

\* What loadHistory returns for `sessionId` on the disk `d`.
Loaded(d, sessionId) ==
    IF historyPath(sessionId) \notin DOMAIN d.files THEN <<>>
    ELSE LET parsed == HistoryParse(d.files[historyPath(sessionId)])
         IN  IF parsed.ok THEN parsed.value ELSE <<>>

Idle == [op |-> "none"]

NoSessionLog ==
    [calls |-> 0,
     last |-> [id \in SessionIds |->
                 [op |-> "none", messages |-> <<>>, before |-> <<>>]],
     writers |-> {},
     done |-> [op |-> "none"]]

\* ------------------------------------------------- the evaluator on its own

\* The expression texts evaluateExpression is called with.
EvalExpressions == {"topic", "!flag", "5", "missing", "topic +"}

\* The names an expression text mentions.
Mentions(expr) ==
    LET ast == JsParse(expr)
    IN  IF ast.op \in {"var", "not"} THEN {ast.name} ELSE {}

\* The names and values of inputs and outputs: identifiers, and the name
\* a --input first-draft=... or a <Generation name="first-draft" /> gives.
EvalKeys == {"topic", "flag", "extra", "first-draft"}
EvalValues == {Str("cats"), Bool(FALSE)}

\* The scopes of one or two keys.
EvalScopes ==
    {<<>>}
    \cup {<<KV(k, v)>> : k \in EvalKeys, v \in EvalValues}
    \cup {<<KV("topic", Str("cats")), KV("flag", v)>> : v \in {Bool(TRUE), Bool(FALSE)}}

\* `delete o[k]`
ObjDelete(o, k) == SelectSeq(o, LAMBDA e : e.k # k)

\* The scope with the key `k` renamed to `n`.
ObjRename(o, k, n) == [i \in 1..Len(o) |-> IF o[i].k = k THEN KV(n, o[i].v) ELSE o[i]]

EvaluationOff == [state |-> "off"]

\* ------------------------------------------------------- the agent package

\* The parts of the agent package when they are not in use.
StreamOff == [state |-> "off"]
ModulesOff == [state |-> "off"]
ServerOff == [state |-> "off"]
DaemonOff == [state |-> "off"]
HeartbeatOff == [state |-> "off"]

\* ------------------------------------------------------------------- state

VARIABLES
    run,        \* how the run was started: [mode, interactive, path, given, resolver]
    cli,        \* runExecute's position and the exit code of the process
    stderr,     \* the failures the command has reported, in order
    status,     \* of the top-level execute(): idle, running, done, error, killed
    ctxs,       \* the WorkflowContext of every live executor, sub-flows last
    frames,     \* the call stack of the executors
    pending,    \* the promise the executor is awaiting
    result,     \* the value the last execute() returned
    events,     \* everything the event sink received, in order
    nextId,     \* the next identity for an executor or a loop iteration
    trace,      \* history: every node start, in run order
    llmLog,     \* history: every LLM call
    loopLog,    \* history: every completed Loop
    ifLog,      \* history: every If evaluation
    flowLog,    \* history: every Flow call
    inputLog,   \* history: every human-input node
    structLog,  \* history: every completed Structured call
    execLog,    \* history: every top-level call of execute()
    thrown,     \* the error execute() rejected with ("" when none)
    scan,       \* the call of parseNodes on a document body: its text,
                \* cursor, prose buffer, nodes and outcome
    disk,       \* the directories and files under the agent's sessions/
    managers,   \* the SessionManager instances and the call each one is in
    sessionLog, \* history: the calls made on the session managers
    evaluation, \* one expression, two scopes, and what it evaluates to in each
    stream,     \* one call of processTaskStream and the agent it prompts
    modules,    \* the modules of an AgentRuntime and what was done with each
    server,     \* the web server's sockets, their prompts and the shared agent
    daemon,     \* the PID file, the daemon processes and the ProcessManager calls
    heartbeat   \* a HeartbeatManager, its timers and the wakes they caused

vars ==
    <<run, cli, stderr, status, ctxs, frames, pending, result, events, nextId,
      trace, llmLog, loopLog, ifLog, flowLog, inputLog, structLog, execLog, thrown,
      scan, disk, managers, sessionLog, evaluation,
      stream, modules, server, daemon, heartbeat>>

\* What no step of a run changes: how it was started, the scanner's state,
\* which belongs to the parser alone, and the session store, which belongs to
\* the session managers.
\* The agent package's state: the runtime, the web server, the daemon.
agentPackage == <<stream, modules, server, daemon, heartbeat>>

static == <<run, scan, disk, managers, sessionLog, evaluation, agentPackage>>

history == <<trace, llmLog, loopLog, ifLog, flowLog, inputLog>>

NoPending == [kind |-> "none"]

\* The array input of `k` elements.
ItemsUpTo(k) == Arr([i \in 1..k |-> Str("p" \o ToString(i))])

\* The explicit inputs (--input flags, or the constructor's `inputs`) tried
\* for each document.
Given(path) ==
    CASE path = "seq.mdx" -> {<<>>, <<KV("topic", Str("dogs"))>>}
      [] path = "loop.mdx" ->
            {<<>>} \cup {<<KV("items", ItemsUpTo(k))>> : k \in 0..MaxItems}
      [] path = "nested.mdx" -> {<<KV("n", Num(k))>> : k \in 0..MaxCount}
      [] path = "shadow.mdx" -> {<<KV("n", Num(k))>> : k \in 1..MaxCount}
      [] path = "allow.mdx" -> {<<>>, <<KV("topic", Str("dogs"))>>}
      [] path = "override.mdx" -> {<<>>, <<KV("tone", Str("warm"))>>}
      [] path = "if.mdx" -> {<<>>, <<KV("flag", Bool(TRUE))>>}
      [] path = "input.mdx" ->
            {<<>>, <<KV("who", Str("bob")), KV("ok", Str("yes"))>>}
      [] OTHER -> {<<>>}

\* The documents a run is started on.
MainPaths ==
    {"seq.mdx", "loop.mdx", "nested.mdx", "if.mdx", "flow.mdx", "flowbad.mdx",
     "flowinvalid.mdx", "invalid.mdx", "flowmissing.mdx", "input.mdx",
     "defaults.mdx", "struct.mdx", "shadow.mdx", "allow.mdx",
     "override.mdx", "failsoft.mdx"}

\* The input resolvers: none, a caller's or the terminal UI's ("user"), and
\* the command's non-interactive one ("cli"); `retry` is the --retry flag
\* as parseArgs stored it (0 when absent).
Runs ==
    {[mode |-> "api", interactive |-> FALSE, path |-> p, given |-> g, resolver |-> r,
      retry |-> 0] :
        p \in MainPaths, g \in UNION {Given(q) : q \in MainPaths},
        r \in {"none", "user"}}
    \cup
    {[mode |-> "cli", interactive |-> i, path |-> p, given |-> g,
      resolver |-> IF i THEN "user" ELSE "cli", retry |-> n] :
        p \in MainPaths \cup {"broken.mdx"},
        g \in UNION {Given(q) : q \in MainPaths}, i \in BOOLEAN, n \in 0..MaxRetry}

Init ==
    /\ run \in {r \in Runs :
                /\ r.given \in Given(r.path)
                /\ (r.mode = "api" /\ r.resolver = "user") => r.path \in {"input.mdx"}}
    /\ cli = [phase |-> IF run.mode = "cli" THEN "parse" ELSE "off", code |-> -1,
              inputs |-> run.given]
    /\ stderr = <<>>
    /\ status = "idle"
    /\ ctxs = <<>>
    /\ frames = <<>>
    /\ pending = NoPending
    /\ result = <<>>
    /\ events = <<>>
    /\ nextId = 1
    /\ trace = <<>>
    /\ llmLog = <<>>
    /\ loopLog = <<>>
    /\ ifLog = <<>>
    /\ flowLog = <<>>
    /\ inputLog = <<>>
    /\ structLog = <<>>
    /\ execLog = <<>>
    /\ thrown = ""
    /\ scan = ScanOff
    /\ disk = NoDisk
    /\ managers = <<>>
    /\ sessionLog = NoSessionLog
    /\ evaluation = EvaluationOff
    /\ stream = StreamOff
    /\ modules = ModulesOff
    /\ server = ServerOff
    /\ daemon = DaemonOff
    /\ heartbeat = HeartbeatOff

\* ------------------------------------------------------------ the command

\* A failure written to standard error, with the number of LLM calls the
\* run had made by then.
Report(what, cause) == Append(stderr, [what |-> what, cause |-> cause, llmCalls |-> Len(llmLog)])

\* runExecute, lines 613-622: parse the document; a failure exits with 2.
CliParse ==
    /\ cli.phase = "parse"
    /\ LET r == parseWorkflow(run.path)
       IN  IF r.ok
           THEN /\ cli' = [cli EXCEPT !.phase = "validate"]
                /\ UNCHANGED stderr
           ELSE /\ cli' = [cli EXCEPT !.phase = "exit", !.code = 2]
                /\ stderr' = Report("parse", r.error)
    /\ UNCHANGED <<static, status, ctxs, frames, pending, result, events, nextId, history, thrown>>
    /\ UNCHANGED <<structLog, execLog>>

\* runExecute, lines 624-633: validate; any error exits with 3.
CliValidate ==
    /\ cli.phase = "validate"
    /\ LET validationErrors == validateWorkflow(parseWorkflow(run.path).def)
       IN  IF validationErrors = <<>>
           THEN /\ cli' = [cli EXCEPT !.phase = "inputs"]
                /\ UNCHANGED stderr
           ELSE /\ cli' = [cli EXCEPT !.phase = "exit", !.code = 3]
                /\ stderr' = Report("validation", validationErrors[1])
    /\ UNCHANGED <<static, status, ctxs, frames, pending, result, events, nextId, history, thrown>>
    /\ UNCHANGED <<structLog, execLog>>

\* Faulty variant: no default is applied.
applyDefaultsSkipped(inputs, inputDefs) == inputs

RECURSIVE applyDefaults(_, _)
\* The default of every declared input that is undefined in `inputs`.
applyDefaults(inputs, inputDefs) ==
    IF inputDefs = <<>> THEN inputs
    ELSE LET d == Head(inputDefs)
         IN  applyDefaults(
                 IF ObjGet(inputs, d.name).t = "undef" /\ d.default.t # "undef"
                 THEN ObjPut(inputs, d.name, d.default)
                 ELSE inputs,
                 Tail(inputDefs))

\* resolveInputs: the flags, then the defaults; a required input that is
\* still undefined exits with 3.
resolveInputs(given, inputDefs) ==
    LET missing == {i \in 1..Len(inputDefs) :
                        /\ ObjGet(given, inputDefs[i].name).t = "undef"
                        /\ inputDefs[i].default.t = "undef"
                        /\ inputDefs[i].required}
    IN  [ok |-> missing = {}, inputs |-> applyDefaults(given, inputDefs)]

\* runExecute, line 635.
CliResolveInputs ==
    /\ cli.phase = "inputs"
    /\ LET r == resolveInputs(run.given, parseWorkflow(run.path).def.inputs)
       IN  IF r.ok
           THEN /\ cli' = [cli EXCEPT !.phase = "run", !.inputs = r.inputs]
                /\ UNCHANGED stderr
           ELSE /\ cli' = [cli EXCEPT !.phase = "exit", !.code = 3]
                /\ stderr' = Report("missing input", "")
    /\ UNCHANGED <<static, status, ctxs, frames, pending, result, events, nextId, history, thrown>>
    /\ UNCHANGED <<structLog, execLog>>

\* ------------------------------------------------------------ the executor

Top == frames[Len(frames)]
Ctx == ctxs[Len(ctxs)]

\* The constructor's context: a copy of the inputs, nothing else.
NewContext(eid, inputs) ==
    [eid |-> eid, inputs |-> inputs, outputs |-> <<>>, contextStack |-> <<>>]

\* buildScope: { ...inputs, ...outputs }
buildScope(ctx) == ObjSpread(ctx.inputs, ctx.outputs)

\* The current executor's context replaced by `c`.
SetCtx(c) == [ctxs EXCEPT ![Len(ctxs)] = c]

\* Faulty variant: a handler's promise is not awaited, the for loop of
\* executeNodes moves on while it is outstanding.
AwaitingNever == FALSE

\* `await`: the executor does nothing else while a promise is pending.
Awaiting == pending.kind # "none"

\* A frame of executeNodes (or of execute's own for loop): `site` is the
\* caller (execute, loop, then, else); `iter` and `ifEval` identify the loop
\* iteration or the If evaluation that called it.
NodesFrame(site, nodes, workflow, iter, ifEval) ==
    [f |-> "nodes", site |-> site, nodes |-> nodes, pc |-> 1,
     workflow |-> workflow, iter |-> iter, ifEval |-> ifEval]

\* executeNode's switch: the executor is about to run a node of this kind.
AtNode(kind) ==
    /\ status = "running"
    /\ ~Awaiting
    /\ frames # <<>>
    /\ Top.f = "nodes"
    /\ Top.pc <= Len(Top.nodes)
    /\ Top.nodes[Top.pc].kind = kind

Cur == Top.nodes[Top.pc]

\* The for loop of executeNodes moves on to the next node.
Advance(fs) == [fs EXCEPT ![Len(fs)].pc = @ + 1]

\* `k` frames returned, and their caller's handler with them.
Return(fs, k) == Advance(SubSeq(fs, 1, Len(fs) - k))

\* The frames of the current executor: those above the last Flow call.
OwnFrames ==
    LET flows == {i \in 1..Len(frames) : frames[i].f = "flow"}
        base == IF flows = {} THEN 0 ELSE CHOOSE i \in flows : \A j \in flows : j <= i
    IN  SubSeq(frames, base + 1, Len(frames))

\* History: the executor and the loop iterations in progress, outermost first.
Regions ==
    LET its == SelectSeq(OwnFrames, LAMBDA fr : fr.f = "nodes" /\ fr.site = "loop")
    IN  <<Ctx.eid>> \o [i \in 1..Len(its) |-> its[i].iter]

\* History: the If branches in progress, outermost first.
Branches ==
    LET brs == SelectSeq(frames, LAMBDA fr : fr.f = "nodes" /\ fr.site \in {"then", "else"})
    IN  [i \in 1..Len(brs) |-> [eval |-> brs[i].ifEval, branch |-> brs[i].site]]

\* History: item and index as the innermost loop iteration in progress in
\* the current executor injected them (empty outside of loops).
LoopVars ==
    LET loops == {i \in 1..Len(OwnFrames) : OwnFrames[i].f = "loop"}
    IN  IF loops = {} THEN <<>>
        ELSE LET lp == OwnFrames[CHOOSE i \in loops : \A j \in loops : j <= i]
             IN  <<KV("item", IF lp.hasItems THEN lp.items[lp.i + 1] ELSE Num(lp.i)),
                   KV("index", Num(lp.i))>>

\* History: the node starts, each with its position in the list of nodes
\* that executeNodes is walking, the number of the execute() call, the
\* scope the node finds and the loop variables of its iteration.
Started(node) ==
    Append(trace, [id |-> node.id, kind |-> node.kind, regions |-> Regions,
                   branches |-> Branches, pc |-> Top.pc,
                   exec |-> Len(execLog),
                   name |-> IF "name" \in DOMAIN node THEN node.name ELSE "",
                   scope |-> buildScope(Ctx), loopVars |-> LoopVars])

\* An event as the sink receives it, with the node start it belongs to (0:
\* the run itself) and the number of node starts so far.
Ev(event, inst, seen) == event @@ [at |-> inst, seen |-> seen]

\* The handler of a node that starts now emits `evs`.
EmitNow(evs) ==
    events \o [i \in 1..Len(evs) |-> Ev(evs[i], Len(trace) + 1, Len(trace) + 1)]

\* Faulty variant: the events reach the sink last one first.
EmitLaterReversed(evs, inst) ==
    events \o [i \in 1..Len(evs) |-> Ev(evs[Len(evs) + 1 - i], inst, Len(trace))]

\* A handler that started earlier (node start `inst`) emits `evs`.
EmitLater(evs, inst) ==
    events \o [i \in 1..Len(evs) |-> Ev(evs[i], inst, Len(trace))]

\* A throw that nothing in the executor catches: execute() rejects.
Throw(what) ==
    /\ status' = "error"
    /\ thrown' = what
    /\ frames' = <<>>
    /\ pending' = NoPending

\* execute(), lines 93-100, of the top-level executor: the start event, the
\* declared defaults, then the first node.
executeStart ==
    /\ status = "idle"
    /\ cli.phase \in {"off", "run"}
    /\ LET workflow == parseWorkflow(run.path).def
           inputs == IF run.mode = "cli" THEN cli.inputs ELSE run.given
       IN  /\ ctxs' = <<NewContext(nextId, applyDefaults(inputs, workflow.inputs))>>
           /\ frames' = <<NodesFrame("execute", workflow.nodes, workflow, 0, 0)>>
           /\ events' = events \o <<Ev([type |-> "start", workflow |-> workflow.name], 0, 0)>>
           /\ execLog' = Append(execLog,
                    [path |-> run.path, context |-> NewContext(nextId, inputs)])
    /\ nextId' = nextId + 1
    /\ status' = "running"
    /\ UNCHANGED <<static, cli, stderr, pending, result, history, thrown>>
    /\ UNCHANGED structLog

\* The documents a caller of the API executes more than once on one
\* executor.
RepeatedPaths == {"seq.mdx", "struct.mdx"}

\* execute() called again on the executor whose execution has returned:
\* lines 93-100 run on this.context as the earlier execution left it (the
\* constructor is the only place that creates it).
executeAgain ==
    /\ run.mode = "api"
    /\ run.path \in RepeatedPaths
    /\ status = "done"
    /\ Len(execLog) < MaxExecutions
    /\ LET workflow == parseWorkflow(run.path).def
       IN  /\ ctxs' = <<[ctxs[1] EXCEPT !.inputs = applyDefaults(@, workflow.inputs)]>>
           /\ frames' = <<NodesFrame("execute", workflow.nodes, workflow, 0, 0)>>
           /\ events' = events \o <<Ev([type |-> "start", workflow |-> workflow.name], 0,
                                        Len(trace))>>
           /\ execLog' = Append(execLog, [path |-> run.path, context |-> ctxs[1]])
    /\ status' = "running"
    /\ UNCHANGED <<static, cli, stderr, pending, result, nextId, history, thrown>>
    /\ UNCHANGED structLog

\* handleProse
handleProse ==
    /\ AtNode("prose")
    /\ LET interpolated == interpolateString(Cur.content, buildScope(Ctx))
       IN  ctxs' = SetCtx([Ctx EXCEPT !.contextStack = Append(@, interpolated)])
    /\ frames' = Advance(frames)
    /\ trace' = Started(Cur)
    /\ UNCHANGED <<static, cli, stderr, status, pending, result, events, nextId,
                   llmLog, loopLog, ifLog, flowLog, inputLog, thrown>>
    /\ UNCHANGED <<structLog, execLog>>

\* Faulty variant: the value is also pushed on the context stack.
SetEffectPushing(ctx, name, value) ==
    [ctx EXCEPT !.outputs = ObjPut(@, name, value),
                !.contextStack = Append(@, JsonStringify(value))]

\* handleSet, line 407: `this.context.outputs[node.name] = value`.
SetEffect(ctx, name, value) == [ctx EXCEPT !.outputs = ObjPut(@, name, value)]

\* handleSet
handleSet ==
    /\ AtNode("set")
    /\ LET value == resolveExpression(Cur.value, buildScope(Ctx))
       IN  /\ ctxs' = SetCtx(SetEffect(Ctx, Cur.name, value))
           /\ events' = EmitNow(<<[type |-> "set", name |-> Cur.name],
                                  [type |-> "output", name |-> Cur.name, value |-> value]>>)
    /\ frames' = Advance(frames)
    /\ trace' = Started(Cur)
    /\ UNCHANGED <<static, cli, stderr, status, pending, result, nextId,
                   llmLog, loopLog, ifLog, flowLog, inputLog, thrown>>
    /\ UNCHANGED <<structLog, execLog>>

\* handleLog
handleLog ==
    /\ AtNode("log")
    /\ LET message == interpolateString(Cur.content, buildScope(Ctx))
       IN  events' = EmitNow(<<[type |-> "log", level |-> "info", message |-> message]>>)
    /\ frames' = Advance(frames)
    /\ trace' = Started(Cur)
    /\ UNCHANGED <<static, cli, stderr, status, ctxs, pending, result, nextId,
                   llmLog, loopLog, ifLog, flowLog, inputLog, thrown>>
    /\ UNCHANGED <<structLog, execLog>>

\* executeNode, case "comment": skipped entirely.
skipComment ==
    /\ AtNode("comment")
    /\ frames' = Advance(frames)
    /\ trace' = Started(Cur)
    /\ UNCHANGED <<static, cli, stderr, status, ctxs, pending, result, events, nextId,
                   llmLog, loopLog, ifLog, flowLog, inputLog, thrown>>
    /\ UNCHANGED <<structLog, execLog>>

\* The text-delta streams the LLM client can answer with.
Streams == {<<"Roses ", "are red">>, <<"Violets">>}

\* Faulty variant: the entries are joined with a single line break.
GenerationPromptSingle(contextStack) == JoinStr(contextStack, "\n")

\* handleGeneration, line 184: the prompt is the stack joined with blank
\* lines.
GenerationPrompt(contextStack) == JoinStr(contextStack, "\n\n")

\* handleGeneration up to its await: the start event, the prompt, the call.
handleGeneration ==
    /\ AtNode("generation")
    /\ events' = EmitNow(<<[type |-> "generation:start", name |-> Cur.name]>>)
    /\ pending' = [kind |-> "llm", node |-> Cur, inst |-> Len(trace) + 1,
                   stack |-> Ctx.contextStack,
                   prompt |-> GenerationPrompt(Ctx.contextStack)]
    /\ trace' = Started(Cur)
    /\ UNCHANGED <<static, cli, stderr, status, ctxs, frames, result, nextId,
                   llmLog, loopLog, ifLog, flowLog, inputLog, thrown>>
    /\ UNCHANGED <<structLog, execLog>>

\* callLLM's stream, then the rest of handleGeneration: one chunk event per
\* delta, the output, the push, the end events.
generationEnd ==
    /\ status = "running"
    /\ pending.kind = "llm"
    /\ pending.node.kind = "generation"
    /\ \E deltas \in Streams :
        LET fullResponse == JoinStr(deltas, "")
            node == pending.node
            chunks == [i \in 1..Len(deltas) |->
                          [type |-> "generation:chunk", name |-> node.name,
                           content |-> deltas[i]]]
            c == [Ctx EXCEPT !.outputs = ObjPut(@, node.name, Str(fullResponse)),
                             !.contextStack = Append(@, fullResponse)]
        IN  /\ ctxs' = SetCtx(c)
            /\ events' = EmitLater(chunks \o
                            <<[type |-> "generation:end", name |-> node.name],
                              [type |-> "output", name |-> node.name,
                               value |-> Str(fullResponse)]>>, pending.inst)
            /\ llmLog' = Append(llmLog,
                            [id |-> node.id, inst |-> pending.inst, prompt |-> pending.prompt,
                             stack |-> pending.stack, response |-> fullResponse,
                             regions |-> Regions, name |-> node.name,
                             deltas |-> deltas, before |-> Ctx, after |-> c])
    /\ pending' = NoPending
    /\ frames' = Advance(frames)
    /\ UNCHANGED <<static, cli, stderr, status, result, nextId,
                   trace, loopLog, ifLog, flowLog, inputLog, thrown>>
    /\ UNCHANGED <<structLog, execLog>>

\* fieldDefToJsonSchema, for the scalar field types.
fieldDefToJsonSchema(field) ==
    Obj(<<KV("type", Str(CASE field.type = "number" -> "number"
                           [] field.type = "boolean" -> "boolean"
                           [] OTHER -> "string")),
          KV("description", Undef)>>)

\* buildJsonSchemaFromFields
buildJsonSchemaFromFields(fields) ==
    LET named == SelectSeq(fields, LAMBDA f : f.name # "")
    IN  Obj(<<KV("type", Str("object")),
              KV("properties",
                 Obj([i \in 1..Len(named) |->
                        KV(named[i].name, fieldDefToJsonSchema(named[i]))])),
              KV("required", Arr([i \in 1..Len(named) |-> Str(named[i].name)]))>>)

\* describeFieldsForPrompt, for fields without description and children.
describeFieldsForPrompt(fields) ==
    JoinStr([i \in 1..Len(fields) |->
                "- \"" \o (IF fields[i].name = "" THEN "(element)" ELSE fields[i].name)
                \o "\": " \o fields[i].type], "\n")

\* The prompt handleStructured sends.
StructuredPrompt(stack, node) ==
    JoinStr(stack, "\n\n") \o "\n\n"
    \o "Respond with ONLY valid JSON matching this schema:\n"
    \o describeFieldsForPrompt(node.fields)
    \o "\n\nJSON Schema:\n'''json\n"
    \o JsonStringify(buildJsonSchemaFromFields(node.fields))
    \o "\n'''\n\n"
    \o "Output ONLY the JSON object, no markdown fences, no explanation."

\* The responses to a Structured call, each as the sequence of its lexical
\* pieces (streamed one delta per piece): fenced JSON, JSON inside a
\* sentence, two brace groups that are no JSON together, no JSON at all, and
\* a JSON number.
StructuredStreams ==
    {<<"'''json\n", "{\"score\": 7}", "\n'''">>,
     <<"Sure: ", "{\"score\": 7}", " Done.">>,
     <<"{\"score\": 7}", " and ", "{oops}">>,
     <<"I cannot rate this.">>,
     <<"7">>}

\* The response without a leading and a trailing Markdown fence (the two
\* replace() calls and trim() of line 228-231).  A backquote is written '
\* in the texts of this module.
StripFences(pieces) ==
    LET opened == IF pieces # <<>> /\ Head(pieces) \in {"'''json\n", "'''\n", "'''"}
                  THEN Tail(pieces) ELSE pieces
        closed == IF opened # <<>> /\ opened[Len(opened)] \in {"\n'''", "'''", "'''\n"}
                  THEN SubSeq(opened, 1, Len(opened) - 1) ELSE opened
    IN  closed

\* JSON.parse: [ok, value]; it throws on every text that is no JSON.
JsonParse(text) ==
    CASE text = "{\"score\": 7}" -> [ok |-> TRUE, value |-> Obj(<<KV("score", Num(7))>>)]
      [] text = "7" -> [ok |-> TRUE, value |-> Num(7)]
      [] text = "5" -> [ok |-> TRUE, value |-> Num(5)]
      [] OTHER -> [ok |-> FALSE, value |-> Undef]

\* rawResponse.match(/\{[\s\S]*\}/): from the first "{" to the last "}".
MatchBraces(pieces) ==
    LET braced == {"{\"score\": 7}", "{oops}"}
        at == {i \in 1..Len(pieces) : pieces[i] \in braced}
    IN  IF at = {} THEN [found |-> FALSE, text |-> ""]
        ELSE LET first == CHOOSE i \in at : \A j \in at : i <= j
                 last == CHOOSE i \in at : \A j \in at : j <= i
             IN  [found |-> TRUE, text |-> JoinStr(SubSeq(pieces, first, last), "")]

\* Faulty variant: a response that is no JSON yields undefined.
ParseStructuredLoose(pieces) ==
    IF JsonParse(JoinStr(StripFences(pieces), "")).ok
    THEN JsonParse(JoinStr(StripFences(pieces), "")).value
    ELSE IF MatchBraces(pieces).found
         THEN JsonParse(MatchBraces(pieces).text).value
         ELSE Undef

\* handleStructured, lines 225-244: the value parsed from the response, or
\* the sentinel.
ParseStructured(pieces) ==
    LET rawResponse == JoinStr(pieces, "")
        cleaned == JoinStr(StripFences(pieces), "")
        jsonMatch == MatchBraces(pieces)
    IN  IF JsonParse(cleaned).ok THEN JsonParse(cleaned).value
        ELSE IF jsonMatch.found
             THEN IF JsonParse(jsonMatch.text).ok THEN JsonParse(jsonMatch.text).value
                  ELSE Obj(<<KV("_raw", Str(rawResponse)),
                             KV("_error", Str("Failed to parse JSON"))>>)
             ELSE Obj(<<KV("_raw", Str(rawResponse)),
                        KV("_error", Str("No JSON found in response"))>>)

\* handleStructured up to its await.
handleStructured ==
    /\ AtNode("structured")
    /\ events' = EmitNow(<<[type |-> "structured:start", name |-> Cur.name]>>)
    /\ pending' = [kind |-> "llm", node |-> Cur, inst |-> Len(trace) + 1,
                   stack |-> Ctx.contextStack,
                   prompt |-> StructuredPrompt(Ctx.contextStack, Cur)]
    /\ trace' = Started(Cur)
    /\ UNCHANGED <<static, cli, stderr, status, ctxs, frames, result, nextId,
                   llmLog, loopLog, ifLog, flowLog, inputLog, thrown>>
    /\ UNCHANGED <<structLog, execLog>>

\* The rest of handleStructured: the response is parsed, stored and pushed.
structuredEnd ==
    /\ status = "running"
    /\ pending.kind = "llm"
    /\ pending.node.kind = "structured"
    /\ \E deltas \in StructuredStreams :
        LET node == pending.node
            parsed == ParseStructured(deltas)
            chunks == [i \in 1..Len(deltas) |->
                          [type |-> "generation:chunk", name |-> node.name,
                           content |-> deltas[i]]]
            c == [Ctx EXCEPT !.outputs = ObjPut(@, node.name, parsed),
                             !.contextStack = Append(@, JsonStringify(parsed))]
        IN  /\ ctxs' = SetCtx(c)
            /\ events' = EmitLater(chunks \o
                            <<[type |-> "structured:end", name |-> node.name,
                               value |-> parsed],
                              [type |-> "output", name |-> node.name, value |-> parsed]>>,
                            pending.inst)
            /\ structLog' = Append(structLog,
                            [id |-> node.id, inst |-> pending.inst, name |-> node.name,
                             prompt |-> pending.prompt, pieces |-> deltas,
                             value |-> parsed, before |-> Ctx, after |-> c])
    /\ pending' = NoPending
    /\ frames' = Advance(frames)
    /\ UNCHANGED <<static, cli, stderr, status, result, nextId,
                   trace, llmLog, loopLog, ifLog, flowLog, inputLog, thrown>>
    /\ UNCHANGED execLog

\* The text deltas that arrived before a failing stream threw.
PartialStreams == {<<>>, <<"Roses ">>}

\* Faulty variant: the failure of the stream is swallowed and the text
\* received so far is returned.
callLLMFailureSwallowed(deltas) == [threw |-> FALSE, fullResponse |-> JoinStr(deltas, "")]

\* callLLM when the stream throws after `deltas`: nothing catches it, the
\* promise rejects.
callLLMFailure(deltas) == [threw |-> TRUE, fullResponse |-> ""]

\* The LLM call of a Generation or Structured node fails: one chunk event
\* per delta received, then the rejection passes through the handler and
\* every caller up to execute().
llmFail ==
    /\ status = "running"
    /\ pending.kind = "llm"
    /\ \E deltas \in PartialStreams :
        LET node == pending.node
            outcome == callLLMFailure(deltas)
            chunks == [i \in 1..Len(deltas) |->
                          [type |-> "generation:chunk", name |-> node.name,
                           content |-> deltas[i]]]
            value == IF node.kind = "structured"
                     THEN ParseStructured(<<outcome.fullResponse>>)
                     ELSE Str(outcome.fullResponse)
            entry == IF node.kind = "structured" THEN JsonStringify(value)
                     ELSE outcome.fullResponse
        IN  IF outcome.threw
            THEN /\ Throw("LLMError")
                 /\ events' = EmitLater(chunks, pending.inst)
                 /\ UNCHANGED ctxs
            ELSE /\ ctxs' = SetCtx([Ctx EXCEPT !.outputs = ObjPut(@, node.name, value),
                                               !.contextStack = Append(@, entry)])
                 /\ events' = EmitLater(chunks \o
                        <<[type |-> "output", name |-> node.name, value |-> value]>>,
                        pending.inst)
                 /\ pending' = NoPending
                 /\ frames' = Advance(frames)
                 /\ UNCHANGED <<status, thrown>>
    /\ UNCHANGED <<static, cli, stderr, result, nextId,
                   trace, llmLog, loopLog, ifLog, flowLog, inputLog>>
    /\ UNCHANGED <<structLog, execLog>>

\* execute(), lines 107-125: the nodes are done; the result is the merge of
\* inputs and outputs, cut to the allow-list when one is declared.
FinalOutputs(ctx, workflow) ==
    LET allOutputs == ObjSpread(ctx.inputs, ctx.outputs)
    IN  IF Len(workflow.outputs) > 0
        THEN LET named == SelectSeq(workflow.outputs, LAMBDA key : JsIn(allOutputs, key))
             IN  [i \in 1..Len(named) |-> KV(named[i], JsGet(allOutputs, named[i]))]
        ELSE allOutputs

\* execute() returns: the complete event, and the promise resolves.  A
\* sub-flow's executor hands its result to the Flow handler awaiting it.
executeReturn ==
    /\ status = "running"
    /\ ~Awaiting
    /\ frames # <<>>
    /\ Top.f = "nodes" /\ Top.site = "execute" /\ Top.pc > Len(Top.nodes)
    /\ LET outputs == FinalOutputs(Ctx, Top.workflow)
       IN  /\ result' = outputs
           /\ events' = EmitLater(<<[type |-> "complete", outputs |-> Obj(outputs)]>>, 0)
    /\ frames' = SubSeq(frames, 1, Len(frames) - 1)
    /\ IF Len(frames) = 1
       THEN status' = "done" /\ ctxs' = ctxs
       ELSE status' = status /\ ctxs' = SubSeq(ctxs, 1, Len(ctxs) - 1)
    /\ UNCHANGED <<static, cli, stderr, pending, nextId, history, thrown>>
    /\ UNCHANGED <<structLog, execLog>>

\* ------------------------------------------------------------------- loops

\* `typeof resolved === "number" ? resolved : Number(resolved) || 0`
ToCount(resolved) ==
    IF resolved.t = "num" THEN resolved.n
    ELSE LET n == JsNumber(resolved) IN IF n.t = "num" THEN n.n ELSE 0

\* handleLoop, lines 306-329: the iteration count, the loop:start event and
\* the snapshot of the context stack.
handleLoop ==
    /\ AtNode("loop")
    /\ LET scope == buildScope(Ctx)
           resolved == IF Cur.over # None THEN resolveExpression(Cur.over, scope)
                       ELSE IF Cur.count # None THEN resolveExpression(Cur.count, scope)
                       ELSE Undef
           items == IF Cur.over # None
                    THEN (IF resolved.t = "arr" THEN resolved.a ELSE <<>>)
                    ELSE <<>>
           total == IF Cur.over # None THEN Len(items)
                    ELSE IF Cur.count # None THEN ToCount(resolved)
                    ELSE 0
       IN  /\ frames' = Append(frames,
                 [f |-> "loop", node |-> Cur, inst |-> Len(trace) + 1,
                  hasItems |-> (Cur.over # None), items |-> items, total |-> total,
                  i |-> 0,
                  preLoopContextStack |-> Ctx.contextStack,
                  outerOutputs |-> <<>>,
                  iterationResults |-> <<>>,
                  entry |-> Ctx, starts |-> <<>>, ends |-> <<>>])
           /\ events' = EmitNow(<<[type |-> "loop:start", name |-> Cur.name, total |-> total]>>)
    /\ trace' = Started(Cur)
    /\ UNCHANGED <<static, cli, stderr, status, ctxs, pending, result, nextId,
                   llmLog, loopLog, ifLog, flowLog, inputLog, thrown>>
    /\ UNCHANGED <<structLog, execLog>>

\* Faulty variant: the iteration goes on with the stack as the previous
\* iteration left it.
IterationStackKept(loop, stack) == stack

\* Faulty variant: the iteration starts with an empty stack.
IterationStackEmpty(loop, stack) == <<>>

\* The context stack an iteration starts with: a copy of the snapshot,
\* whatever the stack holds by then.
IterationStack(loop, stack) == loop.preLoopContextStack

\* Faulty variant: the iteration's outputs are item and index alone.
IterationOutputsAlone(outerOutputs, currentItem, i) ==
    <<KV("item", currentItem), KV("index", Num(i))>>

\* The outputs an iteration starts with: the outer ones, then item and index.
IterationOutputs(outerOutputs, currentItem, i) ==
    ObjSpread(outerOutputs, <<KV("item", currentItem), KV("index", Num(i))>>)

\* handleLoop, lines 331-351: an iteration begins with the pre-loop stack
\* and with item and index injected into the outputs.
loopIterate ==
    /\ status = "running"
    /\ ~Awaiting
    /\ frames # <<>>
    /\ Top.f = "loop"
    /\ Top.i < Top.total
    /\ LET i == Top.i
           currentItem == IF Top.hasItems THEN Top.items[i + 1] ELSE Num(i)
           outerOutputs == Ctx.outputs
           c == [Ctx EXCEPT !.contextStack = IterationStack(Top, @),
                            !.outputs = IterationOutputs(outerOutputs, currentItem, i)]
       IN  /\ ctxs' = SetCtx(c)
           /\ frames' = Append(
                 [frames EXCEPT ![Len(frames)].outerOutputs = outerOutputs,
                                ![Len(frames)].starts = Append(@, c)],
                 NodesFrame("loop", Top.node.children, None, nextId, 0))
           /\ events' = EmitLater(<<[type |-> "loop:iteration", name |-> Top.node.name,
                                     index |-> i, iter |-> nextId]>>, Top.inst)
    /\ nextId' = nextId + 1
    /\ UNCHANGED <<static, cli, stderr, status, pending, result, history, thrown>>
    /\ UNCHANGED <<structLog, execLog>>

\* Faulty variant: every output of the iteration is collected, changed or
\* not.
CollectOutputsAll(outputs, outerOutputs) ==
    SelectSeq(outputs, LAMBDA e : e.k # "item" /\ e.k # "index")

\* The outputs created or changed during the iteration, item and index
\* left out.
CollectOutputs(outputs, outerOutputs) ==
    SelectSeq(outputs, LAMBDA e :
        /\ e.k # "item"
        /\ e.k # "index"
        /\ ~(ObjHas(outerOutputs, e.k) /\ StrictEq(ObjGet(outerOutputs, e.k), e.v)))

\* Faulty variant: the iteration's outputs are kept for the next one.
RestoreOutputsSkipped(outputs, outerOutputs) == outputs

\* The outputs after an iteration: the outer ones again.
RestoreOutputs(outputs, outerOutputs) == outerOutputs

\* handleLoop, lines 353-371: the iteration's children are done; its
\* outputs are collected and the outer outputs restored.
loopCollect ==
    /\ status = "running"
    /\ ~Awaiting
    /\ frames # <<>>
    /\ Top.f = "nodes" /\ Top.site = "loop" /\ Top.pc > Len(Top.nodes)
    /\ LET loop == frames[Len(frames) - 1]
           i == loop.i
           currentItem == IF loop.hasItems THEN loop.items[i + 1] ELSE Num(i)
           iterationOutputs == CollectOutputs(Ctx.outputs, loop.outerOutputs)
           record == ObjSpread(<<KV("item", currentItem), KV("index", Num(i))>>,
                               iterationOutputs)
       IN  /\ ctxs' = SetCtx([Ctx EXCEPT
                                 !.outputs = RestoreOutputs(@, loop.outerOutputs)])
           /\ frames' = [SubSeq(frames, 1, Len(frames) - 1) EXCEPT
                            ![Len(frames) - 1].i = i + 1,
                            ![Len(frames) - 1].iterationResults = Append(@, Obj(record)),
                            ![Len(frames) - 1].ends = Append(@, Ctx)]
    /\ UNCHANGED <<static, cli, stderr, status, pending, result, events, nextId,
                   history, thrown>>
    /\ UNCHANGED <<structLog, execLog>>

\* The summary a completed loop pushes.
LoopSummary(name, total, iterationResults) ==
    "[Loop \"" \o name \o "\" completed: " \o ToString(total) \o " iterations]\n"
    \o JsonStringify(Arr(iterationResults))

\* Faulty variant: the summary is pushed on the stack the last iteration
\* left.
LoopExitStackKept(loop, stack) ==
    Append(stack, LoopSummary(loop.node.name, loop.total, loop.iterationResults))

\* The context stack after the loop: the pre-loop stack and the summary.
LoopExitStack(loop, stack) ==
    Append(loop.preLoopContextStack,
           LoopSummary(loop.node.name, loop.total, loop.iterationResults))

\* handleLoop, lines 374-385: the pre-loop stack is restored, the results
\* stored, the summary pushed.
loopEnd ==
    /\ status = "running"
    /\ ~Awaiting
    /\ frames # <<>>
    /\ Top.f = "loop"
    /\ Top.i >= Top.total
    /\ LET loop == Top
           results == Arr(loop.iterationResults)
           c == [Ctx EXCEPT
                    !.contextStack = LoopExitStack(loop, @),
                    !.outputs = ObjPut(@, loop.node.name, results)]
       IN  /\ ctxs' = SetCtx(c)
           /\ events' = EmitLater(<<[type |-> "loop:end", name |-> loop.node.name],
                                    [type |-> "output", name |-> loop.node.name,
                                     value |-> results]>>, loop.inst)
           /\ loopLog' = Append(loopLog,
                            [id |-> loop.node.id, inst |-> loop.inst, name |-> loop.node.name,
                             total |-> loop.total, entry |-> loop.entry, exit |-> c,
                             starts |-> loop.starts, results |-> loop.iterationResults,
                             ends |-> loop.ends, node |-> loop.node])
    /\ frames' = Return(frames, 1)
    /\ UNCHANGED <<static, cli, stderr, status, pending, result, nextId,
                   trace, llmLog, ifLog, flowLog, inputLog, thrown>>
    /\ UNCHANGED <<structLog, execLog>>

\* ------------------------------------------------------------ conditionals

\* Faulty variant: without an Else, a falsy condition runs the children.
IfBranchFallThrough(node, condition) ==
    IF condition \/ ~node.hasElse THEN "then" ELSE "else"

\* The branch handleIf runs: "then", "else" or "none".
IfBranch(node, condition) ==
    IF condition THEN "then"
    ELSE IF node.hasElse THEN "else"
    ELSE "none"

\* handleIf: the condition's raw text is evaluated and coerced; one branch,
\* or none, is executed.
handleIf ==
    /\ AtNode("if")
    /\ LET condition == evaluateCondition(Cur.condition.raw, buildScope(Ctx))
           branch == IfBranch(Cur, condition)
       IN  /\ events' = EmitNow(<<[type |-> "if:eval", condition |-> Cur.condition.raw,
                                   result |-> condition]>>)
           /\ ifLog' = Append(ifLog, [id |-> Cur.id, inst |-> Len(trace) + 1,
                                      result |-> condition, hasElse |-> Cur.hasElse,
                                      before |-> Ctx, events |-> Len(events)])
           /\ frames' =
                CASE branch = "then" ->
                        Append(frames, NodesFrame("then", Cur.children, None, 0, Len(ifLog) + 1))
                  [] branch = "else" ->
                        Append(frames, NodesFrame("else", Cur.elseChildren, None, 0, Len(ifLog) + 1))
                  [] OTHER -> Advance(frames)
    /\ trace' = Started(Cur)
    /\ UNCHANGED <<static, cli, stderr, status, ctxs, pending, result, nextId,
                   llmLog, loopLog, flowLog, inputLog, thrown>>
    /\ UNCHANGED <<structLog, execLog>>

\* handleIf returns when the branch's executeNodes is done.
ifEnd ==
    /\ status = "running"
    /\ ~Awaiting
    /\ frames # <<>>
    /\ Top.f = "nodes" /\ Top.site \in {"then", "else"} /\ Top.pc > Len(Top.nodes)
    /\ frames' = Return(frames, 1)
    /\ UNCHANGED <<static, cli, stderr, status, ctxs, pending, result, events, nextId,
                   history, thrown>>
    /\ UNCHANGED <<structLog, execLog>>

\* --------------------------------------------------------------- sub-flows

RECURSIVE FlowInputs(_, _)
\* handleFlow, lines 439-445: every mapped input resolved against the
\* parent's scope.
FlowInputs(mapping, scope) ==
    IF mapping = <<>> THEN <<>>
    ELSE ObjSpread(<<KV(Head(mapping).k, resolveExpression(Head(mapping).v, scope))>>,
                   FlowInputs(Tail(mapping), scope))

\* Faulty variant: the sub-flow's executor starts on the parent's stack and
\* outputs.
SubflowContextInherited(eid, subflowInputs, parent) ==
    [eid |-> eid, inputs |-> subflowInputs, outputs |-> parent.outputs,
     contextStack |-> parent.contextStack]

\* The context of the sub-flow's executor.
SubflowContext(eid, subflowInputs, parent) == NewContext(eid, subflowInputs)

\* handleFlow up to its await: the sub-flow's file is parsed (a failure
\* throws), the inputs are mapped, a new executor is constructed and its
\* execute() begins.
handleFlow ==
    /\ AtNode("flow")
    /\ trace' = Started(Cur)
    /\ LET parsed == parseWorkflow(Cur.src)
           subflowInputs == FlowInputs(Cur.inputs, buildScope(Ctx))
           constructed == SubflowContext(nextId, subflowInputs, Ctx)
           begun == [constructed EXCEPT !.inputs = applyDefaults(@, parsed.def.inputs)]
       IN  IF ~parsed.ok
           THEN /\ Throw(parsed.error)
                /\ events' = EmitNow(<<[type |-> "flow:start", name |-> Cur.name,
                                        src |-> Cur.src]>>)
                /\ UNCHANGED <<ctxs, nextId>>
           ELSE /\ ctxs' = Append(ctxs, begun)
                /\ frames' = frames \o
                      <<[f |-> "flow", node |-> Cur, inst |-> Len(trace) + 1,
                         entry |-> ctxs, mapped |-> subflowInputs,
                         constructed |-> constructed, begun |-> begun],
                        NodesFrame("execute", parsed.def.nodes, parsed.def, 0, 0)>>
                /\ events' = EmitNow(<<[type |-> "flow:start", name |-> Cur.name,
                                        src |-> Cur.src],
                                       [type |-> "start", workflow |-> parsed.def.name]>>)
                /\ nextId' = nextId + 1
                /\ UNCHANGED <<status, pending, thrown>>
    /\ UNCHANGED <<static, cli, stderr, result, llmLog, loopLog, ifLog, flowLog, inputLog>>
    /\ UNCHANGED <<structLog, execLog>>

\* The parent's outputs after the sub-flow: its result under the node's name.
FlowExitOutputs(outputs, name, subflowOutputs) ==
    ObjPut(outputs, name, Obj(subflowOutputs))

\* handleFlow, lines 459-467: the sub-flow's result is stored and a summary
\* of it pushed.
flowEnd ==
    /\ status = "running"
    /\ ~Awaiting
    /\ frames # <<>>
    /\ Top.f = "flow"
    /\ LET node == Top.node
           subflowOutputs == result
           summary == "[Subflow \"" \o node.name \o "\" results]\n"
                      \o JsonStringify(Obj(subflowOutputs))
           c == [Ctx EXCEPT
                    !.outputs = FlowExitOutputs(@, node.name, subflowOutputs),
                    !.contextStack = Append(@, summary)]
       IN  /\ ctxs' = SetCtx(c)
           /\ events' = EmitLater(<<[type |-> "flow:end", name |-> node.name],
                                    [type |-> "output", name |-> node.name,
                                     value |-> Obj(subflowOutputs)]>>, Top.inst)
           /\ flowLog' = Append(flowLog,
                            [id |-> node.id, inst |-> Top.inst, name |-> node.name,
                             entry |-> Top.entry, mapped |-> Top.mapped,
                             constructed |-> Top.constructed, begun |-> Top.begun,
                             src |-> node.src, inputs |-> node.inputs,
                             result |-> subflowOutputs,
                             exit |-> SetCtx(c)])
    /\ frames' = Return(frames, 1)
    /\ UNCHANGED <<static, cli, stderr, status, pending, result, nextId,
                   trace, llmLog, loopLog, ifLog, inputLog, thrown>>
    /\ UNCHANGED <<structLog, execLog>>

\* ------------------------------------------------------------- human input

\* Faulty variant: the default is handed on as the expression's value.
PromptDefaultRaw(node, scope) ==
    IF node.default # None THEN resolveExpression(node.default, scope) ELSE Undef

\* `node.default ? String(resolveExpression(node.default, scope)) : undefined`
PromptDefault(node, scope) ==
    IF node.default # None
    THEN Str(JsString(resolveExpression(node.default, scope)))
    ELSE Undef

\* `node.default ? Boolean(resolveExpression(node.default, scope)) : true`
ConfirmDefault(node, scope) ==
    IF node.default # None
    THEN Bool(Truthy(resolveExpression(node.default, scope)))
    ELSE Bool(TRUE)

\* handleSelect, lines 518-530: the options in {value, label} shape.
SelectOptions(node, scope) ==
    LET rawOptions == resolveExpression(node.options, scope)
    IN  IF rawOptions.t = "arr"
        THEN [i \in 1..Len(rawOptions.a) |->
                LET opt == rawOptions.a[i]
                    value == IF opt.t = "str" THEN opt.s ELSE JsonStringify(opt)
                IN  [value |-> value, label |-> value]]
        ELSE <<>>

\* The request handed to the input resolver.
InputRequest(node, scope) ==
    LET message == JsString(resolveExpression(node.message, scope))
    IN  CASE node.kind = "prompt" ->
                [kind |-> "prompt", name |-> node.name, message |-> message,
                 default |-> PromptDefault(node, scope),
                 inputType |-> IF node.inputType = "" THEN "text" ELSE node.inputType]
          [] node.kind = "select" ->
                [kind |-> "select", name |-> node.name, message |-> message,
                 options |-> SelectOptions(node, scope)]
          [] OTHER ->
                [kind |-> "confirm", name |-> node.name, message |-> message,
                 default |-> ConfirmDefault(node, scope)]

\* What each handler makes of the value the resolver returned.
Coerce(request, rawValue) ==
    CASE request.kind = "prompt" ->
            IF request.inputType = "number" THEN JsNumber(rawValue)
            ELSE Str(JsString(rawValue))
      [] request.kind = "select" -> rawValue
      [] OTHER -> Bool(Truthy(rawValue))

\* The context-stack entry that describes the input.
InputEntry(request, value) ==
    CASE request.kind = "prompt" ->
            "[User input \"" \o request.name \o "\": " \o JsString(value) \o "]"
      [] request.kind = "select" ->
            "[User selected \"" \o request.name \o "\": "
            \o (IF value.t = "str" THEN value.s ELSE JsonStringify(value)) \o "]"
      [] OTHER ->
            "[User confirmed \"" \o request.name \o "\": " \o JsString(value) \o "]"

\* Faulty variant: the description of the input takes the place of the
\* stack's entries.
RecordInputRewriting(ctx, request, value) ==
    [ctx EXCEPT !.outputs = ObjPut(@, request.name, value),
                !.contextStack = <<InputEntry(request, value)>>]

\* Faulty variant: the value is stored and not described on the stack.
RecordInputSilently(ctx, request, value) ==
    [ctx EXCEPT !.outputs = ObjPut(@, request.name, value)]

\* The value is stored as an output and described on the context stack.
RecordInput(ctx, request, value) ==
    [ctx EXCEPT !.outputs = ObjPut(@, request.name, value),
                !.contextStack = Append(@, InputEntry(request, value))]

\* Faulty variant: a Prompt without default falls back to the empty text.
HeadlessValueLenient(request) ==
    IF request.kind = "prompt"
    THEN [ok |-> TRUE,
          value |-> IF request.default.t # "undef" THEN request.default ELSE Str("")]
    ELSE [ok |-> TRUE,
          value |-> IF request.kind = "confirm" THEN request.default ELSE Str("")]

\* Without a resolver: the declared default, the first option, or true; a
\* Prompt without default has nothing to fall back to.
HeadlessValue(request) ==
    CASE request.kind = "prompt" ->
            IF request.default.t # "undef"
            THEN [ok |-> TRUE,
                  value |-> IF request.inputType = "number"
                            THEN JsNumber(request.default) ELSE request.default]
            ELSE [ok |-> FALSE, value |-> Undef]
      [] request.kind = "select" ->
            [ok |-> TRUE,
             value |-> IF Len(request.options) > 0
                       THEN Str(request.options[1].value) ELSE Str("")]
      [] OTHER -> [ok |-> TRUE, value |-> request.default]

\* handlePrompt, handleSelect and handleConfirm up to the await of the
\* resolver, or to their end when no resolver is wired.
handleInput ==
    /\ \/ AtNode("prompt")
       \/ AtNode("select")
       \/ AtNode("confirm")
    /\ trace' = Started(Cur)
    /\ LET request == InputRequest(Cur, buildScope(Ctx))
           starting == [type |-> "input:start", name |-> Cur.name, kind |-> request.kind,
                        message |-> request.message]
           headless == HeadlessValue(request)
       IN  IF run.resolver = "none"
           THEN IF headless.ok
                THEN /\ ctxs' = SetCtx(RecordInput(Ctx, request, headless.value))
                     /\ events' = EmitNow(<<starting,
                            [type |-> "input:end", name |-> Cur.name, value |-> headless.value],
                            [type |-> "output", name |-> Cur.name, value |-> headless.value]>>)
                     /\ inputLog' = Append(inputLog,
                            [id |-> Cur.id, inst |-> Len(trace) + 1, request |-> request,
                             node |-> Cur, resolver |-> FALSE, raw |-> Undef, value |-> headless.value,
                             before |-> Ctx, after |-> RecordInput(Ctx, request, headless.value)])
                     /\ frames' = Advance(frames)
                     /\ UNCHANGED <<status, pending, thrown>>
                ELSE /\ Throw("InputRequired")
                     /\ events' = EmitNow(<<starting>>)
                     /\ UNCHANGED <<ctxs, inputLog>>
           ELSE /\ pending' = [kind |-> "input", node |-> Cur, inst |-> Len(trace) + 1,
                               request |-> request, before |-> ctxs,
                               eventsBefore |-> Len(events) + 1]
                /\ events' = EmitNow(<<starting>>)
                /\ UNCHANGED <<ctxs, frames, status, inputLog, thrown>>
    /\ UNCHANGED <<static, cli, stderr, result, nextId, llmLog, loopLog, ifLog, flowLog>>
    /\ UNCHANGED <<structLog, execLog>>

\* What a user can answer.
UserAnswers(request) ==
    CASE request.kind = "prompt" -> {Str("bob"), Str("5")}
      [] request.kind = "select" -> {Str("casual"), Num(2)}
      [] OTHER -> {Bool(FALSE), Str("y")}

\* cliInputResolver: the --input value of the node's name, else the
\* default, else the first option; a Prompt with neither ends the process.
cliInputResolver(request, inputs) ==
    IF ObjHas(inputs, request.name)
    THEN LET provided == ObjGet(inputs, request.name)
         IN  [exit |-> FALSE,
              value |->
                CASE request.kind = "prompt" ->
                        IF request.inputType = "number" THEN JsNumber(provided)
                        ELSE Str(JsString(provided))
                  [] request.kind = "select" -> Str(JsString(provided))
                  [] OTHER -> Bool(provided \in {Bool(TRUE), Str("true"), Str("yes"), Str("1")})]
    ELSE CASE request.kind = "prompt" ->
                IF request.default.t # "undef"
                THEN [exit |-> FALSE, value |-> request.default]
                ELSE [exit |-> TRUE, value |-> Undef]
           [] request.kind = "select" ->
                IF Len(request.options) > 0
                THEN [exit |-> FALSE, value |-> Str(request.options[1].value)]
                ELSE [exit |-> TRUE, value |-> Undef]
           [] OTHER -> [exit |-> FALSE, value |-> request.default]

\* The resolver's promise resolves; the handler records the coerced value,
\* pushes its description and emits input:end.
inputResolved ==
    /\ status = "running"
    /\ pending.kind = "input"
    /\ run.resolver # "cli" \/ ~cliInputResolver(pending.request, cli.inputs).exit
    /\ \E rawValue \in (IF run.resolver = "cli"
                        THEN {cliInputResolver(pending.request, cli.inputs).value}
                        ELSE UserAnswers(pending.request)) :
        LET request == pending.request
            value == Coerce(request, rawValue)
        IN  /\ ctxs' = SetCtx(RecordInput(Ctx, request, value))
            /\ events' = EmitLater(
                    <<[type |-> "input:end", name |-> request.name, value |-> value],
                      [type |-> "output", name |-> request.name, value |-> value]>>,
                    pending.inst)
            /\ inputLog' = Append(inputLog,
                    [id |-> pending.node.id, inst |-> pending.inst, request |-> request,
                     node |-> pending.node, resolver |-> TRUE, raw |-> rawValue, value |-> value,
                     before |-> Ctx, after |-> RecordInput(Ctx, request, value)])
    /\ pending' = NoPending
    /\ frames' = Advance(frames)
    /\ UNCHANGED <<static, cli, stderr, status, result, nextId,
                   trace, llmLog, loopLog, ifLog, flowLog, thrown>>
    /\ UNCHANGED <<structLog, execLog>>

\* cliInputResolver calls error(): the process exits with 1 while the
\* executor is still awaiting.
inputExit ==
    /\ status = "running"
    /\ pending.kind = "input"
    /\ run.resolver = "cli"
    /\ cliInputResolver(pending.request, cli.inputs).exit
    /\ status' = "killed"
    /\ cli' = [cli EXCEPT !.phase = "exit", !.code = 1]
    /\ stderr' = Report("input", pending.request.name)
    /\ UNCHANGED <<static, ctxs, frames, pending, result, events, nextId, history, thrown>>
    /\ UNCHANGED <<structLog, execLog>>

\* runExecute after execute(): a rejection is reported (exit 1, or an error
\* event in the terminal UI, which then stays open); a result is printed.
cliEnd ==
    /\ cli.phase = "run"
    /\ status \in {"done", "error"}
    /\ IF run.interactive
       THEN /\ cli' = [cli EXCEPT !.phase = "open"]
            /\ events' = IF status = "error"
                         THEN EmitLater(<<[type |-> "error", message |-> thrown]>>, 0)
                         ELSE events
            /\ UNCHANGED stderr
       ELSE /\ cli' = [cli EXCEPT !.phase = "exit", !.code = IF status = "error" THEN 1 ELSE 0]
            /\ stderr' = IF status = "error" THEN Report("runtime", thrown) ELSE stderr
            /\ UNCHANGED events
    /\ UNCHANGED <<static, status, ctxs, frames, pending, result, nextId, history, thrown>>
    /\ UNCHANGED <<structLog, execLog>>

\* The terminal UI's handleCtrlC: the second Ctrl+C within 800 ms stops the
\* UI and exits with 0.  The UI is the only thing that ends an interactive
\* run, which waits on a promise that never settles after execute().
ctrlC ==
    /\ run.interactive
    /\ cli.phase = "open"
    /\ cli' = [cli EXCEPT !.phase = "exit", !.code = 0]
    /\ UNCHANGED <<static, stderr, status, ctxs, frames, pending, result, events, nextId,
                   history, thrown>>
    /\ UNCHANGED <<structLog, execLog>>

\* ------------------------------------------------------------- the parser

\* The state of a run of a workflow.
executor ==
    <<run, cli, stderr, status, ctxs, frames, pending, result, events, nextId,
      trace, llmLog, loopLog, ifLog, flowLog, inputLog, structLog, execLog, thrown>>

\* Everything but the scanner's state.
engine == <<executor, disk, managers, sessionLog, evaluation, agentPackage>>

\* Everything but the session store.
outsideSessions == <<executor, scan, evaluation, agentPackage>>

\* The loop of parseNodes is at a turn that takes the branch `kind`.
atTurn(kind) == scan.state = "scanning" /\ stepKind(scan.source, scan.i) = kind

\* The {/* ... */} branch.
scanComment ==
    /\ atTurn("comment")
    /\ scan' = commentStep(scan.source, scan)
    /\ UNCHANGED engine

\* The self-closing tag branch.
scanSelfClosing ==
    /\ atTurn("selfClosing")
    /\ \E selfClose \in {matchSelfClosingTag(scan.source, scan.i)} :
            scan' = [selfClosingStep(scan, selfClose) EXCEPT !.met = Append(@, selfClose)]
    /\ UNCHANGED engine

\* The opening tag branch: the block up to its closing tag, and the Else
\* block after an If.
scanBlock ==
    /\ atTurn("block")
    /\ \E open \in {matchOpeningTag(scan.source, scan.i)} :
            scan' = [blockStep(scan.source, scan, open) EXCEPT !.met = Append(@, open)]
    /\ UNCHANGED engine

\* The branch of a tag name that neither matcher accepts.
scanBroken ==
    /\ atTurn("broken")
    /\ scan' = brokenStep(scan.source, scan)
    /\ UNCHANGED engine

\* The branch that steps over a stray closing tag.
scanClosing ==
    /\ atTurn("closing")
    /\ scan' = closingStep(scan.source, scan)
    /\ UNCHANGED engine

\* The branch that adds a character to the prose.
scanProse ==
    /\ atTurn("prose")
    /\ scan' = proseStep(scan.source, scan)
    /\ UNCHANGED engine

\* The end of the loop: the prose is flushed and the nodes are returned.
scanReturn ==
    /\ atTurn("end")
    /\ scan' = returnStep(scan)
    /\ UNCHANGED engine

\* validateWorkflow on the definition parseWorkflow returned.
scanValidate ==
    /\ scan.state = "returned"
    /\ scan' = [scan EXCEPT !.state = "validated", !.errors = validateParsed(scan.nodes)]
    /\ UNCHANGED engine

\* ------------------------------------------------------ the session managers

existsSync(path) == path \in disk.dirs \/ path \in DOMAIN disk.files

\* Bun.write(path, text).
BunWrite(path, text) ==
    [q \in DOMAIN disk.files \cup {path} |-> IF q = path THEN text ELSE disk.files[q]]

Beginning(m) ==
    /\ m \in 1..Len(managers)
    /\ managers[m].call = Idle
    /\ sessionLog.calls < MaxCalls

\* A completed write through `sessionId`.
Written(sessionId, op, messages, m) ==
    [sessionLog EXCEPT !.last[sessionId] = [op |-> op, messages |-> messages,
                                            before |-> @.messages],
                       !.writers = @ \cup {sessionId},
                       !.done = [op |-> op, manager |-> m, sessionId |-> sessionId]]

\* new SessionManager(agentPath, sessionId)
newSessionManager ==
    \E sessionId \in SessionIds :
        /\ Len(managers) < MaxManagers
        /\ managers' = Append(managers, [sessionId |-> sessionId, call |-> Idle])
        /\ UNCHANGED <<outsideSessions, disk, sessionLog>>

\* saveMessages(messages) is called: it awaits ensureDir first.
saveMessages ==
    \E m \in 1..Len(managers), messages \in MessageLists :
        /\ Beginning(m)
        /\ managers' = [managers EXCEPT ![m].call =
                            [op |-> "save", messages |-> messages, pc |-> "ensureDir"]]
        /\ sessionLog' = [sessionLog EXCEPT !.calls = @ + 1]
        /\ UNCHANGED <<outsideSessions, disk>>

\* clearHistory() is called: it awaits ensureDir first.
clearHistory ==
    \E m \in 1..Len(managers) :
        /\ Beginning(m)
        /\ managers' = [managers EXCEPT ![m].call =
                            [op |-> "clear", messages |-> <<>>, pc |-> "ensureDir"]]
        /\ sessionLog' = [sessionLog EXCEPT !.calls = @ + 1]
        /\ UNCHANGED <<outsideSessions, disk>>

\* ensureDir(sessionPath): mkdir -p when the directory is not there.
ensureDir ==
    \E m \in 1..Len(managers) :
        /\ managers[m].call.op \in {"save", "clear"}
        /\ managers[m].call.pc = "ensureDir"
        /\ disk' = [disk EXCEPT !.dirs =
                        IF existsSync(sessionPath(managers[m].sessionId)) THEN @
                        ELSE @ \cup {sessionPath(managers[m].sessionId)}]
        /\ managers' = [managers EXCEPT ![m].call.pc = "write"]
        /\ UNCHANGED <<outsideSessions, sessionLog>>

\* The Bun.write of saveMessages, and its return.
saveWrite ==
    \E m \in 1..Len(managers) :
        /\ managers[m].call.op = "save"
        /\ managers[m].call.pc = "write"
        /\ disk' = [disk EXCEPT !.files =
                        BunWrite(historyPath(managers[m].sessionId),
                                 SavedText(Loaded(disk, managers[m].sessionId),
                                           managers[m].call.messages))]
        /\ managers' = [managers EXCEPT ![m].call = Idle]
        /\ sessionLog' = Written(managers[m].sessionId, "save",
                                 managers[m].call.messages, m)
        /\ UNCHANGED <<outsideSessions>>

\* The Bun.write of clearHistory, and its return.
clearWrite ==
    \E m \in 1..Len(managers) :
        /\ managers[m].call.op = "clear"
        /\ managers[m].call.pc = "write"
        /\ disk' = [disk EXCEPT !.files =
                        BunWrite(historyPath(managers[m].sessionId),
                                 JsonStringify(Arr(<<>>)))]
        /\ managers' = [managers EXCEPT ![m].call = Idle]
        /\ sessionLog' = Written(managers[m].sessionId, "clear", <<>>, m)
        /\ UNCHANGED <<outsideSessions>>

\* loadHistory() is called and there is no history file: it returns [].
loadMissing ==
    \E m \in 1..Len(managers) :
        /\ Beginning(m)
        /\ ~existsSync(historyPath(managers[m].sessionId))
        /\ sessionLog' = [sessionLog EXCEPT
                             !.calls = @ + 1,
                             !.done = [op |-> "load", manager |-> m,
                                       sessionId |-> managers[m].sessionId,
                                       result |-> <<>>]]
        /\ UNCHANGED <<outsideSessions, disk, managers>>

\* loadHistory() is called and the file is there: it awaits the file's text.
loadHistory ==
    \E m \in 1..Len(managers) :
        /\ Beginning(m)
        /\ existsSync(historyPath(managers[m].sessionId))
        /\ managers' = [managers EXCEPT ![m].call = [op |-> "load", pc |-> "read"]]
        /\ sessionLog' = [sessionLog EXCEPT !.calls = @ + 1]
        /\ UNCHANGED <<outsideSessions, disk>>

\* The text arrives: loadHistory returns what JSON.parse makes of it, or []
\* when JSON.parse throws.
loadRead ==
    \E m \in 1..Len(managers) :
        /\ managers[m].call.op = "load"
        /\ managers[m].call.pc = "read"
        /\ managers' = [managers EXCEPT ![m].call = Idle]
        /\ sessionLog' = [sessionLog EXCEPT
                             !.done = [op |-> "load", manager |-> m,
                                       sessionId |-> managers[m].sessionId,
                                       result |-> Loaded(disk, managers[m].sessionId)]]
        /\ UNCHANGED <<outsideSessions, disk>>

\* ------------------------------------------------------ the evaluator alone

\* Everything but the evaluation.
outsideEvaluation == <<executor, scan, disk, managers, sessionLog, agentPackage>>

\* An input or output the expression does not mention is added to the
\* other scope.
addUnmentioned ==
    \E k \in EvalKeys \ Mentions(evaluation.expr), v \in EvalValues :
        /\ evaluation.state = "scopes"
        /\ ~ObjHas(evaluation.other, k)
        /\ evaluation' = [evaluation EXCEPT !.other = ObjPut(@, k, v)]
        /\ UNCHANGED outsideEvaluation

\* One the expression does not mention is removed from the other scope.
removeUnmentioned ==
    \E k \in EvalKeys \ Mentions(evaluation.expr) :
        /\ evaluation.state = "scopes"
        /\ ObjHas(evaluation.other, k)
        /\ evaluation' = [evaluation EXCEPT !.other = ObjDelete(@, k)]
        /\ UNCHANGED outsideEvaluation

\* One the expression does not mention is renamed in the other scope, to a
\* name the expression does not mention either.
renameUnmentioned ==
    \E k \in EvalKeys \ Mentions(evaluation.expr),
       n \in EvalKeys \ Mentions(evaluation.expr) :
        /\ evaluation.state = "scopes"
        /\ ObjHas(evaluation.other, k)
        /\ ~ObjHas(evaluation.other, n)
        /\ evaluation' = [evaluation EXCEPT !.other = ObjRename(@, k, n)]
        /\ UNCHANGED outsideEvaluation

\* evaluateExpression is called on the expression with each scope.
evaluate ==
    /\ evaluation.state = "scopes"
    /\ evaluation' = [evaluation EXCEPT
                          !.state = "evaluated",
                          !.value = evaluateExpression(evaluation.expr, evaluation.scope),
                          !.otherValue = evaluateExpression(evaluation.expr, evaluation.other)]
    /\ UNCHANGED outsideEvaluation

\* --------------------------------------------------------- processTaskStream

\* The safety limit on the turns of one task.
MAX_TURNS == 50

\* The most turns the agent begins for one prompt.
MaxAgentTurns == 52

\* Everything but the stream.
outsideStream ==
    <<executor, scan, disk, managers, sessionLog, evaluation, modules, server,
      daemon, heartbeat>>

\* An AgentEvent, with the number of the turn it was emitted in.
AgentEvent(type, turn) == [type |-> type, turn |-> turn]

\* processTaskStream has been called and its generator not yet advanced.
StreamStart ==
    [state |-> "created", subscribed |-> FALSE, eventQueue |-> <<>>,
     resolveWait |-> FALSE, done |-> FALSE, turnCount |-> 0,
     yielded |-> <<>>, emitted |-> <<>>,
     agent |-> [phase |-> "idle", turn |-> 0, at |-> "start", aborted |-> FALSE,
                outcome |-> ""]]

\* Faulty variant: the turns are counted and never limited.
OverLimitNever(turnCount) == FALSE

\* `turnCount > MAX_TURNS`
OverLimit(turnCount) == turnCount > MAX_TURNS

\* `yield event`: the generator is suspended until the consumer asks for
\* the next event.
Yield(st, event) == [st EXCEPT !.state = "yielded", !.yielded = Append(@, event)]

\* The body of the inner loop on a queue that is not empty: the event is
\* taken off the queue; a turn_start is counted, and over the limit the
\* agent is aborted and the loops are left; otherwise the event is yielded.
Take(st) ==
    LET event == Head(st.eventQueue)
        shifted == [st EXCEPT !.eventQueue = Tail(@)]
        counted == [shifted EXCEPT !.turnCount = @ + 1]
    IN  IF event.type = "turn_start"
        THEN IF OverLimit(counted.turnCount)
             THEN [counted EXCEPT !.agent.aborted = TRUE, !.done = TRUE,
                                  !.state = "awaitPrompt"]
             ELSE Yield(counted, event)
        ELSE Yield(shifted, event)

\* The test of the outer loop: out of it the prompt's promise is awaited; in
\* it, an empty queue is waited on.
Continue(st) ==
    IF st.done THEN [st EXCEPT !.state = "awaitPrompt"]
    ELSE IF st.eventQueue = <<>> THEN [st EXCEPT !.state = "waiting", !.resolveWait = TRUE]
    ELSE Take(st)

\* The subscriber: the event is queued, agent_end sets `done`, a waiting
\* generator is woken.  After unsub() the agent's events reach nobody.
Deliver(st, event) ==
    LET heard == [st EXCEPT !.emitted = Append(@, event)]
    IN  IF ~st.subscribed THEN heard
        ELSE [heard EXCEPT
                 !.eventQueue = Append(@, event),
                 !.done = (@ \/ event.type = "agent_end"),
                 !.resolveWait = FALSE,
                 !.state = IF st.resolveWait /\ @ = "waiting" THEN "woken" ELSE @]

\* The consumer asks for the first event: the generator subscribes, fires
\* the prompt without awaiting it, and enters the loop.
processTaskStream ==
    /\ stream.state = "created"
    /\ stream' = Continue([stream EXCEPT !.subscribed = TRUE, !.agent.phase = "running"])
    /\ UNCHANGED outsideStream

\* The consumer asks for the next event: after an agent_end the loops are
\* left, otherwise the inner loop goes on.
nextEvent ==
    /\ stream.state = "yielded"
    /\ stream' = IF stream.yielded[Len(stream.yielded)].type = "agent_end"
                 THEN [stream EXCEPT !.done = TRUE, !.state = "awaitPrompt"]
                 ELSE IF stream.eventQueue # <<>> THEN Take(stream)
                 ELSE Continue(stream)
    /\ UNCHANGED outsideStream

\* The wait on the empty queue is over: the inner loop begins.
waitResolved ==
    /\ stream.state = "woken"
    /\ stream' = IF stream.eventQueue # <<>> THEN Take(stream) ELSE Continue(stream)
    /\ UNCHANGED outsideStream

\* `await promptPromise` is over: unsub() in the finally block, then the
\* generator returns, or throws what the prompt rejected with.
promptAwaited ==
    /\ stream.state = "awaitPrompt"
    /\ stream.agent.phase = "settled"
    /\ stream' = [stream EXCEPT
                     !.subscribed = FALSE,
                     !.state = IF stream.agent.outcome = "rejected" THEN "thrown"
                               ELSE "returned"]
    /\ UNCHANGED outsideStream

\* The agent emits its next event: agent_start, then turn after turn a
\* turn_start, a message_end and a turn_end.
agentEmit ==
    /\ stream.state # "off"
    /\ stream.agent.phase = "running"
    /\ LET a == stream.agent
       IN  CASE a.at = "start" ->
                    stream' = Deliver([stream EXCEPT !.agent.at = "between"],
                                      AgentEvent("agent_start", 0))
             [] a.at = "between" ->
                    /\ a.turn < MaxAgentTurns
                    /\ stream' = Deliver([stream EXCEPT !.agent.at = "turn",
                                                        !.agent.turn = @ + 1],
                                         AgentEvent("turn_start", a.turn + 1))
             [] a.at = "turn" ->
                    stream' = Deliver([stream EXCEPT !.agent.at = "message"],
                                      AgentEvent("message_end", a.turn))
             [] OTHER ->
                    stream' = Deliver([stream EXCEPT !.agent.at = "between"],
                                      AgentEvent("turn_end", a.turn))
    /\ UNCHANGED outsideStream

\* The agent's loop finishes, after a turn or on abort: agent_end.
agentEnd ==
    /\ stream.state # "off"
    /\ stream.agent.phase = "running"
    /\ \/ stream.agent.at = "between" /\ stream.agent.turn >= 1
       \/ stream.agent.aborted
    /\ stream' = Deliver([stream EXCEPT !.agent.phase = "ended"],
                         AgentEvent("agent_end", stream.agent.turn))
    /\ UNCHANGED outsideStream

\* The prompt's promise resolves, after agent_end.
promptResolve ==
    /\ stream.state # "off"
    /\ stream.agent.phase = "ended"
    /\ stream' = [stream EXCEPT !.agent.phase = "settled", !.agent.outcome = "resolved"]
    /\ UNCHANGED outsideStream

\* The prompt's promise rejects, after agent_end or without one.
promptReject ==
    /\ stream.state # "off"
    /\ stream.agent.phase \in {"running", "ended"}
    /\ stream' = [stream EXCEPT !.agent.phase = "settled", !.agent.outcome = "rejected"]
    /\ UNCHANGED outsideStream

\* ------------------------------------------------- the runtime's modules

\* Everything but the modules.
outsideModules ==
    <<executor, scan, disk, managers, sessionLog, evaluation, stream, server,
      daemon, heartbeat>>

\* What loadModules returns: the built-in heartbeat module, then the
\* agent-local ones.
LoadedModules == <<"heartbeat", "notes", "mail">>

\* The tool and the system-prompt section a module provides.
ModuleTool(name) == name \o "_tool"
ModuleSection(name) == "## " \o name

\* What createBuiltinTools returns.
BuiltinTools == <<"read_file", "bash">>

\* A constructed AgentRuntime.
ModulesStart ==
    [state |-> "created", next |-> 1, modules |-> <<>>, allTools |-> <<>>,
     systemPrompt |-> <<>>, failed |-> {}, called |-> {}]

\* Faulty variant: the module is kept whether its initialize() threw or not.
KeptModulesAll(kept, mod, threw) == Append(kept, mod)

\* `await mod.initialize(ctx); this.modules.push(mod)` inside the try: a
\* module whose initialize() threw is not pushed.
KeptModules(kept, mod, threw) == IF threw THEN kept ELSE Append(kept, mod)

\* The sequence `seq` without the elements in `out`.
Without(seq, out) == SelectSeq(seq, LAMBDA x : x \notin out)

\* flatMap over this.modules of tools(), a throwing tools() giving [].
moduleTools(kept, throwing) ==
    LET giving == Without(kept, throwing)
    IN  [i \in 1..Len(giving) |-> ModuleTool(giving[i])]

\* The module sections of buildSystemPrompt, a throwing systemPrompt()
\* giving none.
moduleSections(kept, throwing) ==
    LET giving == Without(kept, throwing)
    IN  [i \in 1..Len(giving) |-> ModuleSection(giving[i])]

\* The calls of `method` on each of the modules in `kept`.
Calls(kept, method) == {<<kept[i], method>> : i \in 1..Len(kept)}

\* initialize(), steps 1 to 5: identity, skills, state, loadModules, the
\* module context.
initialize ==
    /\ modules.state = "created"
    /\ modules' = [modules EXCEPT !.state = "initializing"]
    /\ UNCHANGED outsideModules

\* initialize(), step 6, for one module: its initialize() is awaited, and
\* it throws or not.
initializeModule ==
    /\ modules.state = "initializing"
    /\ modules.next <= Len(LoadedModules)
    /\ \E threw \in BOOLEAN :
        LET mod == LoadedModules[modules.next]
        IN  modules' = [modules EXCEPT
                           !.next = @ + 1,
                           !.modules = KeptModules(@, mod, threw),
                           !.failed = IF threw THEN @ \cup {mod} ELSE @,
                           !.called = @ \cup {<<mod, "initialize">>}]
    /\ UNCHANGED outsideModules

\* initialize(), steps 7 and 8: the tools are collected, the system prompt
\* is built and the Agent created.
createAgent ==
    /\ modules.state = "initializing"
    /\ modules.next > Len(LoadedModules)
    /\ \E noTools \in SUBSET {"notes", "mail"}, noSection \in SUBSET {"notes"} :
        modules' = [modules EXCEPT
                       !.state = "initialized",
                       !.allTools = BuiltinTools \o moduleTools(modules.modules, noTools),
                       !.systemPrompt = moduleSections(modules.modules, noSection),
                       !.called = @ \cup Calls(modules.modules, "tools")
                                    \cup Calls(modules.modules, "systemPrompt")]
    /\ UNCHANGED outsideModules

\* start() is called.
start ==
    /\ modules.state = "initialized"
    /\ modules' = [modules EXCEPT !.state = "starting", !.next = 1]
    /\ UNCHANGED outsideModules

\* start(), for one module: its start() is awaited; a failure is logged.
startModule ==
    /\ modules.state = "starting"
    /\ modules' = IF modules.next > Len(modules.modules)
                  THEN [modules EXCEPT !.state = "started"]
                  ELSE [modules EXCEPT
                           !.next = @ + 1,
                           !.called = @ \cup {<<modules.modules[modules.next], "start">>}]
    /\ UNCHANGED outsideModules

\* processTaskStream and modulePrompt rebuild the system prompt.
buildSystemPrompt ==
    /\ modules.state \in {"initialized", "starting", "started"}
    /\ \E noSection \in SUBSET {"notes"} :
        modules' = [modules EXCEPT
                       !.systemPrompt = moduleSections(modules.modules, noSection),
                       !.called = @ \cup Calls(modules.modules, "systemPrompt")]
    /\ UNCHANGED outsideModules

\* stop(): every module is stopped, last one first; a failure is logged.
stop ==
    /\ modules.state \in {"created", "initializing", "initialized", "starting", "started"}
    /\ modules' = [modules EXCEPT !.state = "stopped",
                                  !.called = @ \cup Calls(modules.modules, "stop")]
    /\ UNCHANGED outsideModules

\* ------------------------------------------------------------ the web server

\* The most prompt messages one socket sends.
MaxPrompts == 2

\* Everything but the web server.
outsideServer ==
    <<executor, scan, disk, managers, sessionLog, evaluation, stream, modules,
      daemon, heartbeat>>

\* The open sockets, and the sessions a socket can be on.
Sockets == {1, 2}
ServerSessions == {"a", "b"}

\* The messages of the `n`-th prompt of socket `s`, sent for `session`.
PromptId(s, n) == <<s, n>>
UserPrompt(s, n, session) ==
    [role |-> "user", prompt |-> PromptId(s, n), session |-> session]
AssistantReply(s, n, session) ==
    [role |-> "assistant", prompt |-> PromptId(s, n), session |-> session]

\* A socket after its upgrade, on `session`.
SocketOn(session) ==
    [activeSessionId |-> session, phase |-> "idle", n |-> 0, history |-> <<>>,
     heardEnd |-> FALSE]

\* The web server with two sockets and the runtime's one agent; no session
\* has a history yet.
ServerStart(second) ==
    [state |-> "serving",
     sockets |-> [s \in Sockets |-> SocketOn(IF s = 1 THEN "a" ELSE second)],
     persisted |-> [id \in ServerSessions |-> <<>>],
     messages |-> <<>>,
     prompts |-> [p \in {} |-> "none"],
     overlapped |-> FALSE,
     saves |-> {}]

\* The prompts the agent is working on.
RunningPrompts == {p \in DOMAIN server.prompts : server.prompts[p] = "running"}

\* Another socket's prompt is being handled.
OthersBusy(s) == \E o \in Sockets \ {s} : server.sockets[o].phase # "idle"

\* Faulty variant: the messages are replaced by the history and the other
\* session's history is not.
\* agent.replaceMessages(history)
replaceMessages(messages, loaded) == loaded

\* The prompts with `p` set to `to`.
WithPrompt(p, to) ==
    [q \in DOMAIN server.prompts \cup {p} |-> IF q = p THEN to ELSE server.prompts[q]]

\* handlePrompt, up to the stream: the socket's session history is loaded.
handlePrompt ==
    \E s \in Sockets :
        /\ server.state = "serving"
        /\ server.sockets[s].phase = "idle"
        /\ server.sockets[s].n < MaxPrompts
        /\ server' = [server EXCEPT
                         !.sockets[s].phase = "loaded",
                         !.sockets[s].n = @ + 1,
                         !.sockets[s].heardEnd = FALSE,
                         !.sockets[s].history =
                             server.persisted[server.sockets[s].activeSessionId],
                         !.overlapped = (@ \/ OthersBusy(s))]
        /\ UNCHANGED outsideServer

\* processTaskStream begins on an idle agent: the agent's messages are
\* replaced by the history, the generator subscribes, the prompt is fired
\* and the agent takes the user message.
promptIdle ==
    \E s \in Sockets :
        /\ server.state = "serving"
        /\ server.sockets[s].phase = "loaded"
        /\ RunningPrompts = {}
        /\ LET sock == server.sockets[s]
               p == PromptId(s, sock.n)
           IN  server' = [server EXCEPT
                   !.sockets[s].phase = "streaming",
                   !.messages = Append(replaceMessages(@, sock.history),
                                       UserPrompt(s, sock.n, sock.activeSessionId)),
                   !.prompts = WithPrompt(p, "running")]
        /\ UNCHANGED outsideServer

\* processTaskStream begins while the agent works on another prompt: the
\* messages are replaced all the same; the agent takes the new prompt too,
\* or its prompt() rejects.
promptBusy ==
    \E s \in Sockets, taken \in BOOLEAN :
        /\ server.state = "serving"
        /\ server.sockets[s].phase = "loaded"
        /\ RunningPrompts # {}
        /\ LET sock == server.sockets[s]
               p == PromptId(s, sock.n)
               replaced == replaceMessages(server.messages, sock.history)
           IN  server' = [server EXCEPT
                   !.sockets[s].phase = "streaming",
                   !.messages = IF taken
                                THEN Append(replaced,
                                            UserPrompt(s, sock.n, sock.activeSessionId))
                                ELSE replaced,
                   !.prompts = WithPrompt(p, IF taken THEN "running" ELSE "rejected")]
        /\ UNCHANGED outsideServer

\* The agent answers a prompt and ends: the reply joins the agent's
\* messages, agent_end reaches every subscribed generator, the prompt's
\* promise resolves.
agentReply ==
    \E p \in RunningPrompts :
        /\ server.state = "serving"
        /\ server' = [server EXCEPT
               !.messages = Append(@, AssistantReply(p[1], p[2],
                                        server.sockets[p[1]].activeSessionId)),
               !.prompts = WithPrompt(p, "resolved"),
               !.sockets = [s \in Sockets |->
                               IF server.sockets[s].phase = "streaming"
                               THEN [server.sockets[s] EXCEPT !.heardEnd = TRUE]
                               ELSE server.sockets[s]]]
        /\ UNCHANGED outsideServer

\* The stream of a socket is over and its prompt resolved: done is sent and
\* runtime.getMessages() is saved as the session's history.
persistHistory ==
    \E s \in Sockets :
        /\ server.state = "serving"
        /\ server.sockets[s].phase = "streaming"
        /\ server.sockets[s].heardEnd
        /\ server.prompts[PromptId(s, server.sockets[s].n)] = "resolved"
        /\ LET sock == server.sockets[s]
           IN  server' = [server EXCEPT
                   !.sockets[s].phase = "idle",
                   !.persisted[sock.activeSessionId] = server.messages,
                   !.saves = @ \cup {[socket |-> s, n |-> sock.n,
                                      session |-> sock.activeSessionId,
                                      previous |-> sock.history,
                                      saved |-> server.messages,
                                      overlapped |-> server.overlapped]}]
        /\ UNCHANGED outsideServer

\* The stream of a socket is over and its prompt was rejected: the
\* generator throws, an error is sent and nothing is saved.
streamError ==
    \E s \in Sockets :
        /\ server.state = "serving"
        /\ server.sockets[s].phase = "streaming"
        /\ server.sockets[s].heardEnd
        /\ server.prompts[PromptId(s, server.sockets[s].n)] = "rejected"
        /\ server' = [server EXCEPT !.sockets[s].phase = "idle"]
        /\ UNCHANGED outsideServer

\* ------------------------------------------------------ the process manager

\* The most daemons spawned, and the most calls begun.
MaxSpawns == 2
MaxDaemonCalls == 3

\* Everything but the process manager.
outsideDaemon ==
    <<executor, scan, disk, managers, sessionLog, evaluation, stream, modules,
      server, heartbeat>>

\* The command-line invocations that hold a ProcessManager on the one PID
\* path.
Callers == {1, 2}

\* No PID file, and the PID of no process.
NoPid == 0

\* A caller outside of every call.
NoCall == [op |-> "none", pc |-> "idle", pid |-> NoPid, running |-> FALSE]

\* No PID file and no daemon.
NoDaemon ==
    [state |-> "managing", pidFile |-> NoPid, alive |-> {}, spawned |-> 0,
     begun |-> 0, calls |-> [c \in Callers |-> NoCall], spawns |-> {},
     thrown |-> {}, overlapped |-> FALSE]

\* Some other caller is inside a call.
OthersInside(c) == \E other \in Callers \ {c} : daemon.calls[other].pc # "idle"

\* A caller enters start(), stop() or status(): each begins with status().
Enter(c, op) ==
    [daemon EXCEPT
        !.calls[c] = [op |-> op, pc |-> "exists", pid |-> NoPid,
                      running |-> FALSE],
        !.begun = @ + 1,
        !.overlapped = @ \/ OthersInside(c)]

callStatus ==
    \E c \in Callers :
        /\ daemon.state = "managing"
        /\ daemon.calls[c].pc = "idle"
        /\ daemon.begun < MaxDaemonCalls
        /\ daemon' = Enter(c, "status")
        /\ UNCHANGED outsideDaemon

callStart ==
    \E c \in Callers :
        /\ daemon.state = "managing"
        /\ daemon.calls[c].pc = "idle"
        /\ daemon.begun < MaxDaemonCalls
        /\ daemon' = Enter(c, "start")
        /\ UNCHANGED outsideDaemon

callStop ==
    \E c \in Callers :
        /\ daemon.state = "managing"
        /\ daemon.calls[c].pc = "idle"
        /\ daemon.begun < MaxDaemonCalls
        /\ daemon' = Enter(c, "stop")
        /\ UNCHANGED outsideDaemon

\* status(): existsSync(pidPath); without the file nothing is running.
statusExists ==
    \E c \in Callers :
        /\ daemon.state = "managing"
        /\ daemon.calls[c].pc = "exists"
        /\ daemon' = [daemon EXCEPT
               !.calls[c].pc = IF daemon.pidFile = NoPid THEN "decided"
                               ELSE "read",
               !.calls[c].running = FALSE]
        /\ UNCHANGED outsideDaemon

\* status(): the text of the PID file is read and parsed; a file removed in
\* the meantime makes the read throw, which the outer catch answers with
\* "not running".
statusRead ==
    \E c \in Callers :
        /\ daemon.state = "managing"
        /\ daemon.calls[c].pc = "read"
        /\ daemon' = [daemon EXCEPT
               !.calls[c].pc = IF daemon.pidFile = NoPid THEN "decided"
                               ELSE "probe",
               !.calls[c].pid = daemon.pidFile]
        /\ UNCHANGED outsideDaemon

\* status(): process.kill(pid, 0).
statusProbe ==
    \E c \in Callers :
        /\ daemon.state = "managing"
        /\ daemon.calls[c].pc = "probe"
        /\ LET exists == daemon.calls[c].pid \in daemon.alive
           IN  daemon' = [daemon EXCEPT
                   !.calls[c].pc = IF exists THEN "decided" ELSE "cleanup",
                   !.calls[c].running = exists]
        /\ UNCHANGED outsideDaemon

\* status(): the process does not exist, the PID file at the path is removed.
statusCleanup ==
    \E c \in Callers :
        /\ daemon.state = "managing"
        /\ daemon.calls[c].pc = "cleanup"
        /\ daemon' = [daemon EXCEPT !.pidFile = NoPid,
                                    !.calls[c].pc = "decided"]
        /\ UNCHANGED outsideDaemon

\* status() returns to its caller.
statusReturn ==
    \E c \in Callers :
        /\ daemon.state = "managing"
        /\ daemon.calls[c].pc = "decided"
        /\ daemon.calls[c].op = "status"
        /\ daemon' = [daemon EXCEPT !.calls[c] = NoCall]
        /\ UNCHANGED outsideDaemon

\* start(): "Daemon already running".
startThrow ==
    \E c \in Callers :
        /\ daemon.state = "managing"
        /\ daemon.calls[c].pc = "decided"
        /\ daemon.calls[c].op = "start"
        /\ daemon.calls[c].running
        /\ daemon' = [daemon EXCEPT !.calls[c] = NoCall,
                                    !.thrown = @ \cup {<<c, "start">>}]
        /\ UNCHANGED outsideDaemon

\* start(): status() said nothing is running, the daemon is spawned.
startSpawn ==
    \E c \in Callers :
        /\ daemon.state = "managing"
        /\ daemon.calls[c].pc = "decided"
        /\ daemon.calls[c].op = "start"
        /\ ~daemon.calls[c].running
        /\ daemon.spawned < MaxSpawns
        /\ LET pid == daemon.spawned + 1
           IN  daemon' = [daemon EXCEPT
                   !.spawned = pid,
                   !.alive = @ \cup {pid},
                   !.spawns = @ \cup {[pid |-> pid, beside |-> daemon.alive,
                                       overlapped |-> daemon.overlapped]},
                   !.calls[c].pc = "write",
                   !.calls[c].pid = pid]
        /\ UNCHANGED outsideDaemon

\* start(): the PID of the spawned process is written to the PID file.
startWrite ==
    \E c \in Callers :
        /\ daemon.state = "managing"
        /\ daemon.calls[c].pc = "write"
        /\ daemon' = [daemon EXCEPT !.pidFile = daemon.calls[c].pid,
                                    !.calls[c] = NoCall]
        /\ UNCHANGED outsideDaemon

\* stop(): "Daemon not running".
stopThrow ==
    \E c \in Callers :
        /\ daemon.state = "managing"
        /\ daemon.calls[c].pc = "decided"
        /\ daemon.calls[c].op = "stop"
        /\ ~daemon.calls[c].running
        /\ daemon' = [daemon EXCEPT !.calls[c] = NoCall,
                                    !.thrown = @ \cup {<<c, "stop">>}]
        /\ UNCHANGED outsideDaemon

\* stop(): SIGTERM is sent; to a process that is gone the signal throws and
\* stop() rethrows, leaving the PID file.
stopTerm ==
    \E c \in Callers :
        /\ daemon.state = "managing"
        /\ daemon.calls[c].pc = "decided"
        /\ daemon.calls[c].op = "stop"
        /\ daemon.calls[c].running
        /\ daemon' = IF daemon.calls[c].pid \in daemon.alive
                     THEN [daemon EXCEPT !.calls[c].pc = "wait"]
                     ELSE [daemon EXCEPT !.calls[c] = NoCall,
                                         !.thrown = @ \cup {<<c, "stop">>}]
        /\ UNCHANGED outsideDaemon

\* stop(): the wait is over, because the process exited or because five
\* seconds passed; a process still there gets SIGKILL.
stopKill ==
    \E c \in Callers :
        /\ daemon.state = "managing"
        /\ daemon.calls[c].pc = "wait"
        /\ daemon' = [daemon EXCEPT !.alive = @ \ {daemon.calls[c].pid},
                                    !.calls[c].pc = "remove"]
        /\ UNCHANGED outsideDaemon

\* stop(): the PID file at the path is removed.
stopCleanup ==
    \E c \in Callers :
        /\ daemon.state = "managing"
        /\ daemon.calls[c].pc = "remove"
        /\ daemon' = [daemon EXCEPT !.pidFile = NoPid, !.calls[c] = NoCall]
        /\ UNCHANGED outsideDaemon

\* A daemon exits, on SIGTERM or by itself.
daemonExit ==
    \E pid \in daemon.alive :
        /\ daemon.state = "managing"
        /\ daemon' = [daemon EXCEPT !.alive = @ \ {pid}]
        /\ UNCHANGED outsideDaemon

\* ---------------------------------------------------- the heartbeat manager

\* The most start() calls, and the most times wake() runs.
MaxStarts == 3
MaxWakes == 5

\* Everything but the heartbeat manager.
outsideHeartbeat ==
    <<executor, scan, disk, managers, sessionLog, evaluation, stream, modules,
      server, daemon>>

\* intervalId when it is undefined.
NoTimer == 0

\* A HeartbeatManager after its constructor.
Constructed ==
    [state |-> "constructed", intervalId |-> NoTimer, timers |-> {},
     starts |-> 0, onWakeCallback |-> FALSE, stopped |-> FALSE,
     restarted |-> FALSE, invoked |-> 0, awaited |-> 0, fired |-> 0,
     byScheduler |-> 0]

\* wake(): the callback is invoked when there is one, and awaited.
Woken(h) ==
    IF h.onWakeCallback
    THEN [h EXCEPT !.invoked = @ + 1, !.awaited = @ + 1]
    ELSE h

\* The promise of a callback settles; wake() swallows its rejection.
callbackSettles ==
    /\ heartbeat.state = "constructed"
    /\ heartbeat.awaited > 0
    /\ heartbeat' = [heartbeat EXCEPT !.awaited = @ - 1]
    /\ UNCHANGED outsideHeartbeat

\* wake() is called from outside.
wake ==
    /\ heartbeat.state = "constructed"
    /\ heartbeat.invoked < MaxWakes
    /\ heartbeat' = Woken(heartbeat)
    /\ heartbeat' # heartbeat
    /\ UNCHANGED outsideHeartbeat

\* start(onWake): the callback is kept, wake() runs at once and a new
\* interval is set, whose id replaces the one held.
heartbeatStart ==
    /\ heartbeat.state = "constructed"
    /\ heartbeat.starts < MaxStarts
    /\ heartbeat.invoked < MaxWakes
    /\ LET id == heartbeat.starts + 1
           kept == [heartbeat EXCEPT !.onWakeCallback = TRUE]
       IN  heartbeat' = [Woken(kept) EXCEPT
               !.starts = id,
               !.intervalId = id,
               !.timers = @ \cup {id},
               !.restarted = @ \/ heartbeat.intervalId # NoTimer,
               !.stopped = FALSE]
    /\ UNCHANGED outsideHeartbeat

\* stop(): the interval whose id is held is cleared.
heartbeatStop ==
    /\ heartbeat.state = "constructed"
    /\ heartbeat' = [heartbeat EXCEPT
           !.timers = IF heartbeat.intervalId # NoTimer
                      THEN @ \ {heartbeat.intervalId} ELSE @,
           !.intervalId = NoTimer,
           !.stopped = TRUE]
    /\ UNCHANGED outsideHeartbeat

\* An interval that was set and not cleared fires: wake().
intervalFires ==
    \E id \in heartbeat.timers :
        /\ heartbeat.state = "constructed"
        /\ heartbeat.invoked < MaxWakes
        /\ heartbeat' = [Woken(heartbeat) EXCEPT
               !.fired = @ + 1,
               !.byScheduler = IF heartbeat.onWakeCallback THEN @ + 1 ELSE @]
        /\ UNCHANGED outsideHeartbeat

\* ----------------------------------------------------------- specification

Next ==
    \/ CliParse
    \/ CliValidate
    \/ CliResolveInputs
    \/ executeStart
    \/ executeAgain
    \/ handleProse
    \/ handleSet
    \/ handleLog
    \/ skipComment
    \/ handleGeneration
    \/ generationEnd
    \/ handleStructured
    \/ structuredEnd
    \/ llmFail
    \/ handleLoop
    \/ loopIterate
    \/ loopCollect
    \/ loopEnd
    \/ handleIf
    \/ ifEnd
    \/ handleFlow
    \/ flowEnd
    \/ handleInput
    \/ inputResolved
    \/ inputExit
    \/ executeReturn
    \/ cliEnd
    \/ ctrlC

Spec == Init /\ [][Next]_vars

\* The parser on its own: parseWorkflow, then validateWorkflow, on each of
\* the document bodies; nothing is executed.
ParserInit ==
    /\ scan \in {ScanOf(source) : source \in Sources}
    /\ run = [mode |-> "api", interactive |-> FALSE, path |-> "seq.mdx",
              given |-> <<>>, resolver |-> "none", retry |-> 0]
    /\ cli = [phase |-> "off", code |-> -1, inputs |-> <<>>]
    /\ stderr = <<>>
    /\ status = "idle"
    /\ ctxs = <<>>
    /\ frames = <<>>
    /\ pending = NoPending
    /\ result = <<>>
    /\ events = <<>>
    /\ nextId = 1
    /\ trace = <<>>
    /\ llmLog = <<>>
    /\ loopLog = <<>>
    /\ ifLog = <<>>
    /\ flowLog = <<>>
    /\ inputLog = <<>>
    /\ structLog = <<>>
    /\ execLog = <<>>
    /\ thrown = ""
    /\ disk = NoDisk
    /\ managers = <<>>
    /\ sessionLog = NoSessionLog
    /\ evaluation = EvaluationOff
    /\ stream = StreamOff
    /\ modules = ModulesOff
    /\ server = ServerOff
    /\ daemon = DaemonOff
    /\ heartbeat = HeartbeatOff

ParserNext ==
    \/ scanComment
    \/ scanSelfClosing
    \/ scanBlock
    \/ scanBroken
    \/ scanClosing
    \/ scanProse
    \/ scanReturn
    \/ scanValidate

ParserSpec == ParserInit /\ [][ParserNext]_vars

\* The session managers of one agent, from an empty sessions directory.
SessionInit ==
    /\ run = [mode |-> "api", interactive |-> FALSE, path |-> "seq.mdx",
              given |-> <<>>, resolver |-> "none", retry |-> 0]
    /\ cli = [phase |-> "off", code |-> -1, inputs |-> <<>>]
    /\ stderr = <<>>
    /\ status = "idle"
    /\ ctxs = <<>>
    /\ frames = <<>>
    /\ pending = NoPending
    /\ result = <<>>
    /\ events = <<>>
    /\ nextId = 1
    /\ trace = <<>>
    /\ llmLog = <<>>
    /\ loopLog = <<>>
    /\ ifLog = <<>>
    /\ flowLog = <<>>
    /\ inputLog = <<>>
    /\ structLog = <<>>
    /\ execLog = <<>>
    /\ thrown = ""
    /\ scan = ScanOff
    /\ disk = NoDisk
    /\ managers = <<>>
    /\ sessionLog = NoSessionLog
    /\ evaluation = EvaluationOff
    /\ stream = StreamOff
    /\ modules = ModulesOff
    /\ server = ServerOff
    /\ daemon = DaemonOff
    /\ heartbeat = HeartbeatOff

SessionNext ==
    \/ newSessionManager
    \/ saveMessages
    \/ clearHistory
    \/ ensureDir
    \/ saveWrite
    \/ clearWrite
    \/ loadMissing
    \/ loadHistory
    \/ loadRead

SessionSpec == SessionInit /\ [][SessionNext]_vars

\* -------------------------------------------------------------- properties

IsPrefix(a, b) == Len(a) <= Len(b) /\ SubSeq(b, 1, Len(a)) = a

\* The loop iterations in progress, in any executor.
LiveIters ==
    {frames[i].iter : i \in {j \in 1..Len(frames) :
                                frames[j].f = "nodes" /\ frames[j].site = "loop"}}

\* Every loop seen so far, completed or in progress: the context at its
\* entry, the context each iteration started with, the iteration records.
LoopsSeen ==
    {[name |-> loopLog[i].name, entry |-> loopLog[i].entry, starts |-> loopLog[i].starts,
      results |-> loopLog[i].results] : i \in 1..Len(loopLog)}
    \cup
    {[name |-> frames[i].node.name, entry |-> frames[i].entry, starts |-> frames[i].starts,
      results |-> frames[i].iterationResults] :
        i \in {j \in 1..Len(frames) : frames[j].f = "loop"}}

\* The output events, and where the node that emitted each one started.
OutputEvents == {i \in 1..Len(events) : events[i].type = "output" /\ events[i].at > 0}
RegionsOfEvent(i) == trace[events[i].at].regions

\* C1 (as stated): for any two generations A before B of one execution, B's
\* prompt is the join of a stack that begins with the stack A saw followed
\* by A's response - wherever A and B ran.
C1_PrefixEverywhere ==
    \A i, j \in 1..Len(llmLog) :
        (i < j /\ llmLog[i].regions[1] = llmLog[j].regions[1]) =>
            /\ IsPrefix(Append(llmLog[i].stack, llmLog[i].response), llmLog[j].stack)
            /\ llmLog[j].prompt = JoinStr(llmLog[j].stack, "\n\n")

\* C1: prefix visibility holds for generations A before B of one executor
\* when every loop iteration that was in progress when A ran is still in
\* progress when B runs: B's prompt is then the join of a stack that begins
\* with the stack A saw followed by A's response.
C1_PrefixVisibility ==
    \A i, j \in 1..Len(llmLog) :
        (i < j /\ IsPrefix(llmLog[i].regions, llmLog[j].regions)) =>
            /\ IsPrefix(Append(llmLog[i].stack, llmLog[i].response), llmLog[j].stack)
            /\ llmLog[j].prompt = JoinStr(llmLog[j].stack, "\n\n")

\* A generation before the loop, and one in the loop's second iteration.
C1_Witness ==
    \E i, j, k \in 1..Len(llmLog) :
        /\ i < k /\ k < j
        /\ llmLog[i].id = "l2g" /\ llmLog[k].id = "l5" /\ llmLog[j].id = "l5"
        /\ llmLog[j].stack # <<>>

\* C2: when a loop completes, the context stack is the stack at its entry
\* followed by exactly one entry, the loop's summary.
C2_LoopIsolation ==
    \A k \in 1..Len(loopLog) :
        LET L == loopLog[k]
            before == L.entry.contextStack
            after == L.exit.contextStack
        IN  /\ Len(after) = Len(before) + 1
            /\ SubSeq(after, 1, Len(before)) = before
            /\ after[Len(after)] = LoopSummary(L.name, L.total, L.results)

\* The outer loop completed two iterations, each with the inner loop
\* nested in it and prose pushed by its body.
C2_Witness ==
    \E k \in 1..Len(loopLog) :
        /\ loopLog[k].id = "n2"
        /\ loopLog[k].total = 2
        /\ Len(loopLog[k].starts) = 2
        /\ loopLog[k].entry.contextStack # <<>>

C5_IterationFromSnapshot ==
    \A L \in LoopsSeen :
        \A j \in 1..Len(L.starts) :
            L.starts[j].contextStack = L.entry.contextStack

\* A second iteration starts after the first one pushed a response.
C5_Witness ==
    \E L \in LoopsSeen :
        /\ Len(L.starts) >= 2
        /\ L.entry.contextStack # <<>>
        /\ \E k \in 1..Len(llmLog) : llmLog[k].id = "l5"

\* C6: every node that starts inside a branch of an If starts in the branch
\* its condition selected - the children only when the condition was truthy,
\* the elseChildren only when it was falsy and an Else is attached - and an
\* If that selects nothing changes neither the context nor the events
\* beyond its own if:eval.
C6_IfElseExclusive ==
    /\ \A t \in 1..Len(trace) : \A b \in 1..Len(trace[t].branches) :
            LET br == trace[t].branches[b]
                ev == ifLog[br.eval]
            IN  /\ br.branch = "then" => ev.result
                /\ br.branch = "else" => (~ev.result /\ ev.hasElse)
    /\ \A k \in 1..Len(ifLog) :
            (~ifLog[k].result /\ ~ifLog[k].hasElse) =>
                /\ \A t \in 1..Len(trace) : \A b \in 1..Len(trace[t].branches) :
                        trace[t].branches[b].eval # k
                /\ (Len(trace) = ifLog[k].inst /\ status = "running") =>
                        /\ Ctx = ifLog[k].before
                        /\ Len(events) = ifLog[k].events + 1

\* One If ran its children, another (falsy, without Else) ran nothing, and
\* the run went on to its end.
C6_Witness ==
    /\ status = "done"
    /\ \E k \in 1..Len(ifLog) : ~ifLog[k].result /\ ~ifLog[k].hasElse
    /\ \E t \in 1..Len(trace) :
            /\ trace[t].branches # <<>>
            /\ trace[t].branches[1].branch = "then"

\* The flow frames: the sub-flow calls in progress.
LiveFlows == {i \in 1..Len(frames) : frames[i].f = "flow"}

\* C7: a sub-flow's executor is constructed with an empty stack, no outputs
\* and exactly the mapped inputs, resolved in the parent's scope; it begins
\* with those plus the child's declared defaults; while it runs, every
\* context of the parent chain stays as it was; when it is done the parent
\* has one more output, under the Flow's name, and one more stack entry.
C7_SubflowIsolation ==
    /\ \A i \in LiveFlows :
            /\ SubSeq(ctxs, 1, Len(frames[i].entry)) = frames[i].entry
            /\ frames[i].constructed.contextStack = <<>>
            /\ frames[i].constructed.outputs = <<>>
    /\ \A k \in 1..Len(flowLog) :
            LET F == flowLog[k]
                parent == F.entry[Len(F.entry)]
                after == F.exit[Len(F.exit)]
                child == parseWorkflow(F.src).def
            IN  /\ F.constructed.contextStack = <<>>
                /\ F.constructed.outputs = <<>>
                /\ F.constructed.inputs = F.mapped
                /\ Len(F.mapped) = Len(F.inputs)
                /\ \A m \in 1..Len(F.mapped) :
                        /\ F.mapped[m].k = F.inputs[m].k
                        /\ F.mapped[m].v = resolveExpression(F.inputs[m].v, buildScope(parent))
                /\ F.begun.inputs = applyDefaults(F.mapped, child.inputs)
                /\ F.begun.contextStack = <<>> /\ F.begun.outputs = <<>>
                /\ Len(F.exit) = Len(F.entry)
                /\ SubSeq(F.exit, 1, Len(F.exit) - 1) = SubSeq(F.entry, 1, Len(F.entry) - 1)
                /\ after.inputs = parent.inputs
                /\ after.outputs = ObjPut(parent.outputs, F.name, Obj(F.result))
                /\ Len(after.contextStack) = Len(parent.contextStack) + 1
                /\ IsPrefix(parent.contextStack, after.contextStack)

\* The sub-flow got the parent's generation as its text and fell back to its
\* own defaults for the rest; it ran and returned to a parent that had
\* outputs and a stack of its own.
C7_Witness ==
    \E k \in 1..Len(flowLog) :
        LET F == flowLog[k]
        IN  /\ ObjGet(F.begun.inputs, "text") = ObjGet(F.entry[1].outputs, "pg")
            /\ ObjGet(F.begun.inputs, "tone") = Str("calm")
            /\ ObjGet(F.begun.inputs, "extra") = Str("dflt")
            /\ ObjHas(F.result, "cg")
            /\ ObjGet(F.exit[1].outputs, "x") = Str("px")
            /\ F.entry[1].contextStack # <<>>

\* The document the command was given has an unclosed tag, a Generation
\* without a name or a Flow whose file does not exist.
TopLevelBroken == run.path \in {"broken.mdx", "invalid.mdx", "flowmissing.mdx"}

\* C8 (as stated): every parse failure and every validation failure the
\* command reports, of the top-level document or of a sub-flow's, is
\* reported before the run's first LLM call.
C8_AllFailuresFirst ==
    \A i \in 1..Len(stderr) :
        (stderr[i].what \in {"parse", "validation"} \/ stderr[i].cause = "ParseError") =>
            stderr[i].llmCalls = 0

\* C8: the parse and validation failures of the top-level document are
\* reported before any LLM call: the command makes no call while it parses
\* and validates, and none at all when the document fails either.
C8_TopLevelFailFast ==
    /\ cli.phase \in {"parse", "validate"} => (llmLog = <<>> /\ status = "idle")
    /\ \A i \in 1..Len(stderr) :
            stderr[i].what \in {"parse", "validation"} => stderr[i].llmCalls = 0
    /\ (run.mode = "cli" /\ TopLevelBroken) =>
            (llmLog = <<>> /\ pending.kind # "llm" /\ status = "idle")

\* The command exited with 3 on a document that parses and does not validate.
C8_Witness ==
    /\ cli.phase = "exit"
    /\ cli.code = 3
    /\ Len(stderr) = 1
    /\ stderr[1].what = "validation"
    /\ parseWorkflow(run.path).ok

\* C9: while an input resolver's promise is pending, input:start is the
\* last event, no other node has started and no context has changed; every
\* input a resolver answered has its coerced value recorded under the
\* node's name, exactly one more stack entry, and an input:end emitted
\* before any other node started.
C9_InputSuspension ==
    /\ pending.kind = "input" =>
            /\ events[Len(events)].type = "input:start"
            /\ events[Len(events)].at = pending.inst
            /\ events[Len(events)].name = pending.request.name
            /\ Len(trace) = pending.inst
            /\ ctxs = pending.before
    /\ \A k \in 1..Len(inputLog) :
            LET e == inputLog[k]
            IN  e.resolver =>
                /\ e.after.outputs = ObjPut(e.before.outputs, e.request.name, e.value)
                /\ e.after.inputs = e.before.inputs
                /\ e.request.kind = "prompt" =>
                        IF e.request.inputType = "number"
                        THEN e.value = JsNumber(e.raw)
                        ELSE e.value = Str(JsString(e.raw))
                /\ e.request.kind = "select" => e.value = e.raw
                /\ e.request.kind = "confirm" => e.value = Bool(Truthy(e.raw))
                /\ Len(e.after.contextStack) = Len(e.before.contextStack) + 1
                /\ IsPrefix(e.before.contextStack, e.after.contextStack)
                /\ \E a, b \in 1..Len(events) :
                        /\ a < b
                        /\ events[a].type = "input:start" /\ events[a].at = e.inst
                        /\ events[b].type = "input:end" /\ events[b].at = e.inst
                        /\ events[b].seen = e.inst
                        /\ events[b].value = e.value

\* A user typed "5" into the number Prompt, and the next input is pending.
C9_Witness ==
    /\ pending.kind = "input"
    /\ pending.request.kind = "select"
    /\ \E k \in 1..Len(inputLog) :
            /\ inputLog[k].resolver
            /\ inputLog[k].raw = Str("5")
            /\ inputLog[k].value = Num(5)

\* The executor is about to run a Prompt without default, with no resolver.
HeadlessMandatoryPrompt ==
    /\ AtNode("prompt")
    /\ run.resolver = "none"
    /\ Cur.default = None

\* C10: with no resolver, the step that runs a Prompt without default
\* rejects execute() and leaves every context as it was; from then on the
\* Prompt is the last node that started, it has no input:end and no output,
\* and no complete event is emitted.
C10_HeadlessMandatoryInput ==
    /\ [][HeadlessMandatoryPrompt =>
            /\ status' = "error"
            /\ thrown' = "InputRequired"
            /\ ctxs' = ctxs
            /\ inputLog' = inputLog]_vars
    /\ [](thrown = "InputRequired" =>
            /\ status = "error"
            /\ frames = <<>>
            /\ trace[Len(trace)].kind = "prompt"
            /\ \A i \in 1..Len(events) :
                    /\ events[i].type # "complete"
                    /\ events[i].at = Len(trace) => events[i].type = "input:start")

\* execute() was rejected at the fourth input node, after three inputs fell
\* back to their defaults.
C10_Witness ==
    /\ thrown = "InputRequired"
    /\ status = "error"
    /\ Len(inputLog) = 3
    /\ llmLog = <<>>

\* The Prompts that ran without a resolver and had a default to fall back to.
HeadlessDefaults ==
    {k \in 1..Len(inputLog) :
        /\ ~inputLog[k].resolver
        /\ inputLog[k].request.kind = "prompt"}

\* The value the Prompt's default expression has in the scope it ran in.
DeclaredDefault(e) == resolveExpression(e.node.default, buildScope(e.before))

\* C11 (as stated): a Prompt with a default that runs without a resolver
\* binds its name to exactly the value of the declared default, and the
\* final result has that binding.
C11_ExactDefault ==
    \A k \in HeadlessDefaults :
        LET e == inputLog[k]
        IN  /\ e.value = DeclaredDefault(e)
            /\ (status = "done" /\ trace[e.inst].regions = <<ctxs[1].eid>>) =>
                    ObjGet(result, e.request.name) = DeclaredDefault(e)

\* C11: a Prompt with a default that runs without a resolver neither
\* suspends nor throws and binds its name to the default converted to text -
\* String(default) - and, for a number Prompt, to Number of that text; the
\* final result has that binding.
C11_HeadlessDefault ==
    /\ \A k \in HeadlessDefaults :
        LET e == inputLog[k]
            text == Str(JsString(DeclaredDefault(e)))
            expected == IF e.request.inputType = "number" THEN JsNumber(text) ELSE text
        IN  /\ e.value = expected
            /\ ObjGet(e.after.outputs, e.request.name) = expected
            /\ status = "error" => trace[Len(trace)].id # e.id
            /\ (status = "done" /\ trace[e.inst].regions = <<ctxs[1].eid>>) =>
                    ObjGet(result, e.request.name) = expected
    /\ run.resolver = "none" => pending.kind # "input"

\* The run is over: the text Prompt whose default is the number 5 is bound
\* to the text "5", the number Prompt whose default is no number to NaN.
C11_Witness ==
    /\ status = "done"
    /\ run.resolver = "none"
    /\ ObjGet(result, "label") = Str("5")
    /\ ObjGet(result, "nick") = Str("bob")
    /\ ObjGet(result, "qty") = NaN

\* The sentinel handleStructured stores for a response without JSON.
IsSentinel(v, pieces) ==
    /\ v.t = "obj"
    /\ ObjKeys(v.o) = {"_raw", "_error"}
    /\ ObjGet(v.o, "_raw") = Str(JoinStr(pieces, ""))
    /\ ObjGet(v.o, "_error").t = "str"

\* C12: a Structured node never throws on a response: its output is the
\* JSON value of the response without its fences when that parses, else the
\* JSON value of the text from the first "{" to the last "}" when that
\* parses, else a sentinel with the raw text and an error flag; the value
\* is pushed as JSON text and the next node starts.  The run fails only
\* when the LLM call itself throws.
C12_StructuredFallback ==
    /\ \A k \in 1..Len(structLog) :
        LET e == structLog[k]
            clean == JsonParse(JoinStr(StripFences(e.pieces), ""))
            inner == MatchBraces(e.pieces)
        IN  /\ clean.ok => e.value = clean.value
            /\ (~clean.ok /\ inner.found /\ JsonParse(inner.text).ok) =>
                    e.value = JsonParse(inner.text).value
            /\ (~clean.ok /\ ~(inner.found /\ JsonParse(inner.text).ok)) =>
                    IsSentinel(e.value, e.pieces)
            /\ ObjGet(e.after.outputs, e.name) = e.value
            /\ e.after.contextStack = Append(e.before.contextStack, JsonStringify(e.value))
            /\ (status = "done" /\ run.path = "struct.mdx") =>
                    \E t \in 1..Len(trace) : t > e.inst /\ trace[t].id = "t3"
    /\ (run.path = "struct.mdx" /\ status = "error") => thrown = "LLMError"

\* The response had no JSON: the sentinel was stored and the run went on to
\* its end.
C12_Witness ==
    /\ status = "done"
    /\ \E k \in 1..Len(structLog) :
            /\ IsSentinel(structLog[k].value, structLog[k].pieces)
            /\ structLog[k].pieces = <<"I cannot rate this.">>
    /\ trace[Len(trace)].id = "t3"

\* A step in which a pending LLM call fails: the await is over and no
\* response has been recorded.
LlmFailStep ==
    /\ pending.kind = "llm"
    /\ pending'.kind = "none"
    /\ llmLog' = llmLog
    /\ structLog' = structLog

\* C13: the step in which the LLM call of a Generation or Structured node
\* fails rejects execute() and changes no context; from then on the failing
\* node is the last that started and the only start of that node in its
\* iteration of that execute() call, it has neither end nor output event, and no complete event
\* follows.
C13_AbortOnLlmFailure ==
    /\ [][LlmFailStep =>
            /\ status' = "error"
            /\ thrown' = "LLMError"
            /\ ctxs' = ctxs
            /\ trace' = trace
            /\ llmLog' = llmLog /\ structLog' = structLog]_vars
    /\ [](thrown = "LLMError" =>
            /\ status = "error"
            /\ frames = <<>>
            /\ trace[Len(trace)].kind \in {"generation", "structured"}
            /\ \A t \in 1..(Len(trace) - 1) :
                    ~(/\ trace[t].id = trace[Len(trace)].id
                      /\ trace[t].exec = trace[Len(trace)].exec
                      /\ trace[t].regions = trace[Len(trace)].regions)
            /\ \A i \in 1..Len(events) :
                    /\ events[i].at = Len(trace) =>
                            events[i].type \in {"generation:start", "structured:start",
                                                "generation:chunk"}
                    /\ events[i].type = "complete" => events[i].seen < Len(trace))

\* The second generation of a run failed after one delta: the first one's
\* output is there, the second's is not.
C13_Witness ==
    /\ thrown = "LLMError"
    /\ status = "error"
    /\ Len(llmLog) = 1
    /\ Len(trace) = 4
    /\ events[Len(events)].type = "generation:chunk"
    /\ ObjHas(Ctx.outputs, "a")
    /\ ~ObjHas(Ctx.outputs, "b")

\* The top-level calls of execute() so far.
Attempts == Len(SelectSeq(events, LAMBDA e : e.type = "start" /\ e.at = 0))

\* How often the node that started last has started in its iteration.
LastNodeStarts ==
    Cardinality({t \in 1..Len(trace) :
                    /\ trace[t].id = trace[Len(trace)].id
                    /\ trace[t].regions = trace[Len(trace)].regions})

\* C14 (as stated): a run given --retry n, n >= 1, that is reported as
\* failed with a runtime error has attempted the failing operation - the
\* node that failed, or the execution as a whole - more than once.
C14_RetriedBeforeFailure ==
    (/\ run.mode = "cli"
     /\ run.retry >= 1
     /\ cli.phase = "exit"
     /\ cli.code = 1
     /\ stderr # <<>>
     /\ stderr[Len(stderr)].what = "runtime") =>
        (Attempts > 1 \/ LastNodeStarts > 1)

\* ---------------------------------------------------------------- C15
\* The exit code the outcome of a run of the command calls for.
ExpectedCode ==
    IF status \in {"error", "killed"} THEN 1
    ELSE IF status = "done" THEN 0
    ELSE IF ~parseWorkflow(run.path).ok THEN 2
    ELSE 3

\* C15: every run of the command ends the process with the code of its
\* outcome (0 success, 1 runtime error, 2 parse error, 3 validation error or
\* missing required input), in interactive and in non-interactive mode: once
\* execute() has settled the process does not stay alive, and a failed run
\* does not end with 0.
C15_ExitCodes ==
    run.mode = "cli" =>
        /\ cli.phase # "open"
        /\ cli.phase = "exit" => cli.code = ExpectedCode
        /\ (cli.phase = "exit" /\ status = "error") => cli.code # 0

\* ---------------------------------------------------------------- C16
\* The event that ends the handler of a node of this kind ("" when the
\* handler awaits nothing and emits no end event).
EndEventOf(kind) ==
    CASE kind = "generation" -> "generation:end"
      [] kind = "structured" -> "structured:end"
      [] kind \in {"prompt", "select", "confirm"} -> "input:end"
      [] kind = "loop" -> "loop:end"
      [] kind = "flow" -> "flow:end"
      [] OTHER -> ""

\* Node starts a and b run from the same list of nodes: the same call of
\* execute(), executor, loop iterations and If branches.
Siblings(a, b) ==
    /\ trace[a].exec = trace[b].exec
    /\ trace[a].regions = trace[b].regions
    /\ trace[a].branches = trace[b].branches

\* The node that started at `a` has emitted its end event, before node
\* start `b`.
EndedBefore(a, b) ==
    \E e \in 1..Len(events) :
        /\ events[e].at = a
        /\ events[e].type = EndEventOf(trace[a].kind)
        /\ events[e].seen < b

\* The node that started at `a` has recorded its output.
Recorded(a) ==
    CASE trace[a].kind = "generation" -> \E l \in 1..Len(llmLog) : llmLog[l].inst = a
      [] trace[a].kind = "structured" -> \E l \in 1..Len(structLog) : structLog[l].inst = a
      [] trace[a].kind \in {"prompt", "select", "confirm"} ->
            \E l \in 1..Len(inputLog) : inputLog[l].inst = a
      [] OTHER -> TRUE

\* C16: handlers never overlap.  No node starts while a handler awaits its
\* LLM stream or its input; every event of a node precedes the start of its
\* next sibling, by which time the node has recorded its output and emitted
\* its end event; a handler that awaits a stream or an input sees no other
\* node start before it ends; siblings start in document order; and when
\* iteration i+1 of a loop is announced every child of iteration i has
\* started and emitted all its events.
C16_Sequential ==
    /\ [][Len(trace') > Len(trace) => pending.kind = "none"]_vars
    /\ [](\A a, b \in 1..Len(trace) :
            (a < b /\ Siblings(a, b)) =>
                /\ trace[a].pc < trace[b].pc
                /\ EndEventOf(trace[a].kind) # "" => EndedBefore(a, b)
                /\ Recorded(a)
                /\ \A e \in 1..Len(events) : events[e].at = a => events[e].seen < b)
    /\ [](\A e \in 1..Len(events) :
            (events[e].at > 0
             /\ trace[events[e].at].kind \in
                    {"generation", "structured", "prompt", "select", "confirm"}) =>
                events[e].seen = events[e].at)
    /\ [](\A p, q \in 1..Len(events) :
            (/\ p < q
             /\ events[p].type = "loop:iteration"
             /\ events[q].type = "loop:iteration"
             /\ events[p].at = events[q].at) =>
                /\ events[p].index < events[q].index
                /\ \A t \in 1..Len(trace) :
                        (\E d \in 1..Len(trace[t].regions) :
                            trace[t].regions[d] = events[p].iter) =>
                            /\ t <= events[q].seen
                            /\ \A r \in 1..Len(events) : events[r].at = t => r < q)

\* A loop has announced its second iteration after a first one in which a
\* generation ran, and a generation has been followed by a sibling.
C16_Witness ==
    /\ \E p, q \in 1..Len(events) :
            /\ p < q
            /\ events[p].type = "loop:iteration" /\ events[q].type = "loop:iteration"
            /\ events[p].at = events[q].at
            /\ \E l \in 1..Len(llmLog) :
                    \E d \in 1..Len(llmLog[l].regions) : llmLog[l].regions[d] = events[p].iter
    /\ \E a, b \in 1..Len(trace) :
            a < b /\ Siblings(a, b) /\ trace[a].kind = "generation"

\* ---------------------------------------------------------------- C17
\* C17: every top-level call of execute() starts with an empty context
\* stack and an empty outputs mapping, a second call on the same executor
\* included.
C17_FreshContext ==
    \A x \in 1..Len(execLog) :
        /\ execLog[x].context.outputs = <<>>
        /\ execLog[x].context.contextStack = <<>>

\* ---------------------------------------------------------------- C18
\* C18: a Generation named n sends the context-stack entries joined with a
\* blank line between consecutive entries; afterwards outputs[n] is the
\* whole response (the deltas in order), that text is the last stack entry
\* and the earlier entries are as they were.
C18_GenerationStep ==
    \A l \in 1..Len(llmLog) :
        LET e == llmLog[l]
        IN  /\ e.stack = e.before.contextStack
            /\ e.prompt = JoinStr(e.before.contextStack, "\n\n")
            /\ e.response = JoinStr(e.deltas, "")
            /\ ObjGet(e.after.outputs, e.name) = Str(e.response)
            /\ Len(e.after.contextStack) = Len(e.before.contextStack) + 1
            /\ e.after.contextStack[Len(e.after.contextStack)] = e.response
            /\ SubSeq(e.after.contextStack, 1, Len(e.before.contextStack))
                    = e.before.contextStack

\* A generation ran on a stack of three or more entries and received its
\* response in two deltas.
C18_Witness ==
    \E l \in 1..Len(llmLog) :
        /\ Len(llmLog[l].stack) >= 3
        /\ Len(llmLog[l].deltas) = 2
        /\ llmLog[l].response # ""
        /\ Ctx.contextStack = llmLog[l].after.contextStack

\* ---------------------------------------------------------------- C19
\* The number of iterations the `over` array or the numeric `count` of a
\* completed loop calls for (-1: neither an array nor a number).
IterationsCalledFor(L) ==
    LET scope == buildScope(L.entry)
    IN  IF L.node.over # None
        THEN LET r == resolveExpression(L.node.over, scope)
             IN  IF r.t = "arr" THEN Len(r.a) ELSE -1
        ELSE IF L.node.count # None
             THEN LET r == resolveExpression(L.node.count, scope)
                  IN  IF r.t = "num" THEN r.n ELSE -1
             ELSE -1

\* The element of iteration i (counted from 0) of a completed loop.
ElementOf(L, i) ==
    IF L.node.over # None
    THEN resolveExpression(L.node.over, buildScope(L.entry)).a[i + 1]
    ELSE Num(i)

\* The names, item and index apart, that iteration i of a completed loop
\* created or left with another value than they had when it began.
CreatedOrChanged(L, i) ==
    {k \in ObjKeys(L.ends[i + 1].outputs) \ {"item", "index"} :
        \/ ~ObjHas(L.starts[i + 1].outputs, k)
        \/ ObjGet(L.starts[i + 1].outputs, k) # ObjGet(L.ends[i + 1].outputs, k)}

\* The result of a completed loop of n iterations: n records in iteration
\* order under the loop's name, record i with index i, item the i-th
\* element, and exactly the created or changed names with their values.
LoopRecords(L) ==
    LET n == IterationsCalledFor(L)
    IN  n >= 0 =>
            /\ Len(L.results) = n
            /\ ObjGet(L.exit.outputs, L.name) = Arr(L.results)
            /\ \A i \in 0..(n - 1) :
                    LET rec == L.results[i + 1]
                    IN  /\ rec.t = "obj"
                        /\ ObjGet(rec.o, "index") = Num(i)
                        /\ ObjGet(rec.o, "item") = ElementOf(L, i)
                        /\ ObjKeys(rec.o) = {"item", "index"} \cup CreatedOrChanged(L, i)
                        /\ \A k \in CreatedOrChanged(L, i) :
                                ObjGet(rec.o, k) = ObjGet(L.ends[i + 1].outputs, k)

\* The body of the loop has a Generation named g among its children.
HasGenerationG(L) ==
    \E c \in 1..Len(L.node.children) :
        L.node.children[c].kind = "generation" /\ L.node.children[c].name = "g"

\* C19 (as stated): the loop result is as LoopRecords says, and a body with
\* a Generation named g yields a g key in every record.
C19_KeyInEveryRecord ==
    \A l \in 1..Len(loopLog) :
        /\ LoopRecords(loopLog[l])
        /\ HasGenerationG(loopLog[l]) =>
                \A i \in 1..Len(loopLog[l].results) : ObjHas(loopLog[l].results[i].o, "g")

\* C19: the loop result is as LoopRecords says, and a body with a
\* Generation named g yields a g key in exactly the records of the
\* iterations whose response differs from the value g had when the loop
\* began, or in all of them when g was unbound then.
C19_LoopResult ==
    \A l \in 1..Len(loopLog) :
        LET L == loopLog[l]
        IN  /\ LoopRecords(L)
            /\ HasGenerationG(L) =>
                    \A i \in 1..Len(L.results) :
                        ObjHas(L.results[i].o, "g") <=>
                            ~(/\ ObjHas(L.entry.outputs, "g")
                              /\ ObjGet(L.entry.outputs, "g") = ObjGet(L.ends[i].outputs, "g"))

\* A loop of two iterations whose Generation g answered once with the text
\* g already had and once with another: the first record has no g key,
\* the second has one.
C19_Witness ==
    \E l \in 1..Len(loopLog) :
        /\ HasGenerationG(loopLog[l])
        /\ Len(loopLog[l].results) = 2
        /\ ~ObjHas(loopLog[l].results[1].o, "g")
        /\ ObjHas(loopLog[l].results[2].o, "g")
        /\ ObjHas(loopLog[l].results[2].o, "index")

\* ---------------------------------------------------------------- C20
\* The binding of a name in an outputs mapping (bound or not, and to what).
Binding(outputs, k) == [bound |-> ObjHas(outputs, k), value |-> ObjGet(outputs, k)]

\* An earlier node of the same iteration as node start t carries the name
\* k: a Set, Generation, input or Loop child that assigns outputs[k].
AssignedBefore(t, k) ==
    \E u \in 1..(t - 1) :
        /\ trace[u].regions = trace[t].regions
        /\ trace[u].name = k
        /\ trace[u].kind # "flow"

\* C20 (as stated): every node of an iteration finds item and index bound
\* to the current element and iteration number, and after the loop
\* outputs[item] and outputs[index] are bound as they were before it.
C20_Shadowing ==
    /\ \A t \in 1..Len(trace) :
            trace[t].loopVars # <<>> =>
                \A k \in {"item", "index"} :
                    ObjGet(trace[t].scope, k) = ObjGet(trace[t].loopVars, k)
    /\ \A l \in 1..Len(loopLog) :
            \A k \in {"item", "index"} :
                Binding(loopLog[l].exit.outputs, k) = Binding(loopLog[l].entry.outputs, k)

\* C20: every iteration starts with item and index bound to the current
\* element and iteration number, and each child finds them so bound unless
\* an earlier child of that iteration assigned the name; after the loop
\* outputs[item] and outputs[index] are bound as they were before it,
\* except that a loop named item or index leaves its result under that
\* name.
C20_LoopVariables ==
    /\ \A l \in 1..Len(loopLog) :
            \A i \in 1..Len(loopLog[l].starts) :
                /\ ObjGet(buildScope(loopLog[l].starts[i]), "index") = Num(i - 1)
                /\ ObjGet(buildScope(loopLog[l].starts[i]), "item") =
                        ObjGet(loopLog[l].results[i].o, "item")
    /\ \A t \in 1..Len(trace) :
            trace[t].loopVars # <<>> =>
                \A k \in {"item", "index"} :
                    ~AssignedBefore(t, k) =>
                        ObjGet(trace[t].scope, k) = ObjGet(trace[t].loopVars, k)
    /\ \A l \in 1..Len(loopLog) :
            \A k \in {"item", "index"} :
                IF loopLog[l].name = k
                THEN ObjGet(loopLog[l].exit.outputs, k) = Arr(loopLog[l].results)
                ELSE Binding(loopLog[l].exit.outputs, k) = Binding(loopLog[l].entry.outputs, k)

\* A loop whose children assigned item has completed with item bound as
\* before it and index unbound as before it, a child having found the
\* assigned value; and a loop named index has left its result there.
C20_Witness ==
    /\ \E l \in 1..Len(loopLog) :
            /\ loopLog[l].name = "rounds"
            /\ Len(loopLog[l].results) = 2
            /\ ObjGet(loopLog[l].entry.outputs, "item") = Str("outer")
            /\ ObjGet(loopLog[l].exit.outputs, "item") = Str("outer")
            /\ ObjGet(loopLog[l].ends[2].outputs, "item") = Str("inner")
            /\ ~ObjHas(loopLog[l].exit.outputs, "index")
    /\ \E t \in 1..Len(trace) :
            /\ trace[t].id = "w6"
            /\ ObjGet(trace[t].scope, "item") = Str("inner")
            /\ ObjGet(trace[t].loopVars, "item") = Num(1)
    /\ \E l \in 1..Len(loopLog) :
            /\ loopLog[l].name = "index"
            /\ ObjGet(loopLog[l].exit.outputs, "index") = Arr(loopLog[l].results)

\* ---------------------------------------------------------------- C21
\* The merge of inputs and outputs the top-level execution ended with.
Merged == ObjSpread(ctxs[1].inputs, ctxs[1].outputs)

\* The document of the run.
RunDoc == parseWorkflow(run.path).def

\* The allow-list of the run's document, as a set.
AllowList == {RunDoc.outputs[i] : i \in 1..Len(RunDoc.outputs)}

\* C21: with an allow-list the result of execute() has as keys exactly the
\* allow-listed names that are bound in the merge of inputs and outputs,
\* with their merged values; without one the result is the full merge.
C21_AllowList ==
    status = "done" =>
        IF RunDoc.outputs # <<>>
        THEN /\ ObjKeys(result) = AllowList \cap ObjKeys(Merged)
             /\ \A k \in ObjKeys(result) : ObjGet(result, k) = ObjGet(Merged, k)
        ELSE result = Merged

\* ---------------------------------------------------------------- C22
\* The declared inputs of the run's document that have a default and are
\* omitted from the explicit inputs.
DefaultedInputs ==
    {i \in 1..Len(RunDoc.inputs) :
        /\ RunDoc.inputs[i].default.t # "undef"
        /\ ObjGet(run.given, RunDoc.inputs[i].name).t = "undef"}

\* C22 (as stated): a successful execution without allow-list binds every
\* defaulted input to its declared default in the result.
C22_DefaultInResult ==
    (status = "done" /\ RunDoc.outputs = <<>>) =>
        \A i \in DefaultedInputs :
            /\ ObjHas(result, RunDoc.inputs[i].name)
            /\ ObjGet(result, RunDoc.inputs[i].name) = RunDoc.inputs[i].default

\* C22: a successful execution without allow-list binds every defaulted
\* input to its declared default in the inputs of the context, and in the
\* result unless a node recorded an output of that name, which the result
\* then carries instead.
C22_DefaultApplied ==
    (status = "done" /\ RunDoc.outputs = <<>>) =>
        \A i \in DefaultedInputs :
            LET name == RunDoc.inputs[i].name
            IN  /\ ObjGet(ctxs[1].inputs, name) = RunDoc.inputs[i].default
                /\ ObjHas(result, name)
                /\ ObjGet(result, name) =
                        IF ObjHas(ctxs[1].outputs, name) THEN ObjGet(ctxs[1].outputs, name)
                        ELSE RunDoc.inputs[i].default

\* A run given no inputs has ended with tone bound to its default and
\* topic bound to what the Set recorded.
C22_Witness ==
    /\ status = "done"
    /\ run.path = "override.mdx"
    /\ run.given = <<>>
    /\ ObjGet(result, "tone") = Str("dry")
    /\ ObjGet(result, "topic") = Str("birds")
    /\ ObjGet(ctxs[1].inputs, "topic") = Str("cats")

\* ---------------------------------------------------------------- C23
\* The step starts a node of this kind.
StartsNode(kind) ==
    /\ Len(trace') = Len(trace) + 1
    /\ trace'[Len(trace')].kind = kind

\* C23: a Set step changes outputs[name] of the current context to the
\* resolved value and nothing else of any context - the context stack and
\* the inputs stay as they are; a Log or Comment step changes no context.
C23_Bookkeeping ==
    /\ [][StartsNode("set") =>
            /\ Len(ctxs') = Len(ctxs)
            /\ \A c \in 1..(Len(ctxs) - 1) : ctxs'[c] = ctxs[c]
            /\ ctxs'[Len(ctxs)].contextStack = Ctx.contextStack
            /\ ctxs'[Len(ctxs)].inputs = Ctx.inputs
            /\ ctxs'[Len(ctxs)].eid = Ctx.eid
            /\ ObjGet(ctxs'[Len(ctxs)].outputs, Cur.name) =
                    resolveExpression(Cur.value, buildScope(Ctx))
            /\ \A k \in (ObjKeys(Ctx.outputs) \cup ObjKeys(ctxs'[Len(ctxs)].outputs))
                        \ {Cur.name} :
                    /\ ObjHas(ctxs'[Len(ctxs)].outputs, k) <=> ObjHas(Ctx.outputs, k)
                    /\ ObjGet(ctxs'[Len(ctxs)].outputs, k) = ObjGet(Ctx.outputs, k)]_vars
    /\ [][(StartsNode("log") \/ StartsNode("comment")) => ctxs' = ctxs]_vars

\* A Set, a Log and a comment have run on a context whose stack holds
\* entries, and the stack has as many entries as Prose nodes ran.
C23_Witness ==
    /\ run.path = "override.mdx"
    /\ status = "done"
    /\ Len(trace) = 7
    /\ Len(ctxs[1].contextStack) = 2
    /\ ObjGet(ctxs[1].outputs, "mood") = ObjGet(ctxs[1].inputs, "tone")

\* ---------------------------------------------------------------- C24
\* What the seam yields: the raw text of a static expression whatever the
\* scope holds, the value of a dynamic one.
SeamValue(expr, scope) ==
    IF expr.isStatic THEN Str(expr.raw) ELSE evaluateExpression(expr.raw, scope)

\* The props of Set, Loop, Flow and input nodes go through the seam: the
\* value a Set records, a loop's iteration count, the inputs mapped into a
\* sub-flow, the message and default of an input request.
SeamForProps ==
    /\ [][StartsNode("set") =>
            ObjGet(ctxs'[Len(ctxs)].outputs, Cur.name) =
                SeamValue(Cur.value, buildScope(Ctx))]_vars
    /\ [][StartsNode("loop") =>
            LET loop == frames'[Len(frames')]
            IN  /\ loop.f = "loop"
                /\ Cur.over # None =>
                        LET v == SeamValue(Cur.over, buildScope(Ctx))
                        IN  loop.total = IF v.t = "arr" THEN Len(v.a) ELSE 0
                /\ (Cur.over = None /\ Cur.count # None) =>
                        loop.total = ToCount(SeamValue(Cur.count, buildScope(Ctx)))]_vars
    /\ [][(StartsNode("flow") /\ Len(frames') > Len(frames)) =>
            \E f \in 1..Len(frames') :
                /\ frames'[f].f = "flow"
                /\ frames'[f].node = Cur
                /\ Len(frames'[f].mapped) = Len(Cur.inputs)
                /\ \A m \in 1..Len(Cur.inputs) :
                        ObjGet(frames'[f].mapped, Cur.inputs[m].k) =
                            SeamValue(Cur.inputs[m].v, buildScope(Ctx))]_vars
    /\ [][((StartsNode("prompt") \/ StartsNode("confirm") \/ StartsNode("select"))
            /\ (pending'.kind = "input" \/ Len(inputLog') > Len(inputLog))) =>
            LET request == IF pending'.kind = "input" THEN pending'.request
                           ELSE inputLog'[Len(inputLog')].request
            IN  /\ request.message = JsString(SeamValue(Cur.message, buildScope(Ctx)))
                /\ (Cur.kind = "prompt" /\ Cur.default # None) =>
                        request.default =
                            Str(JsString(SeamValue(Cur.default, buildScope(Ctx))))]_vars

\* C24 (as stated): every expression-valued prop goes through the seam,
\* an If's condition included: a static condition counts as its raw text.
C24_SingleSeam ==
    /\ SeamForProps
    /\ [][StartsNode("if") =>
            ifLog'[Len(ifLog')].result =
                Truthy(SeamValue(Cur.condition, buildScope(Ctx)))]_vars

\* C24: the props of Set, Loop, Flow and input nodes go through the seam;
\* the condition of an If does not - its raw text is evaluated as code
\* whether the expression is static or dynamic.
C24_SeamExceptIf ==
    /\ SeamForProps
    /\ [][StartsNode("if") =>
            ifLog'[Len(ifLog')].result =
                Truthy(evaluateExpression(Cur.condition.raw, buildScope(Ctx)))]_vars

\* A Set with a static value recorded the raw text although the scope
\* binds a name of that spelling, and the If with the static condition
\* "false" skipped its children.
C24_Witness ==
    /\ run.path = "override.mdx"
    /\ status = "done"
    /\ ObjGet(ctxs[1].outputs, "topic") = Str("birds")
    /\ \E i \in 1..Len(ifLog) : ifLog[i].id = "o7" /\ ~ifLog[i].result
    /\ ~ObjHas(ctxs[1].outputs, "taken")

\* ---------------------------------------------------------------- C25
\* Expression texts: those of the documents, the empty text, texts that do
\* not compile.
ExprTexts ==
    Identifiers \cup {"", "!flag", "!index", "true", "false", "5", "topic +", "items.", ")"}

\* C25: in every scope an execution meets, every expression text evaluates
\* to a value; a text whose compilation or call fails evaluates to
\* undefined, interpolates as the empty string and is false as a
\* condition; and the execution of the document with failing expressions
\* runs on to its end.
C25_FailSoft ==
    /\ ctxs # <<>> =>
            \A text \in ExprTexts :
                LET scope == buildScope(Ctx)
                    value == evaluateExpression(text, scope)
                IN  /\ value.t \in {"str", "num", "bool", "arr", "obj", "undef", "nan",
                                     "builtin"}
                    /\ (text # "" /\ RunCompiled(JsParse(text), scope).threw) =>
                            /\ value = Undef
                            /\ interpolateString(<<Lit("<"), Ex(text), Lit(">")>>, scope) = "<>"
                            /\ ~evaluateCondition(text, scope)
    /\ run.path = "failsoft.mdx" =>
            /\ status # "error"
            /\ thrown = ""
            /\ status = "done" =>
                    /\ Ctx.contextStack = <<"A  B  C cats", "end">>
                    /\ ObjGet(Ctx.outputs, "got") = Str("no")
                    /\ ~ObjHas(Ctx.outputs, "compiled")
                    /\ ObjHas(Ctx.outputs, "val")
                    /\ ObjGet(Ctx.outputs, "val") = Undef

\* The document with failing expressions has run to its end.
C25_Witness ==
    /\ run.path = "failsoft.mdx"
    /\ status = "done"
    /\ Len(trace) = 6
    /\ RunCompiled(JsParse("missing"), buildScope(Ctx)).threw
    /\ RunCompiled(JsParse("topic +"), buildScope(Ctx)).threw
    /\ ~RunCompiled(JsParse("topic"), buildScope(Ctx)).threw


\* ---------------------------------------------------------------- C26
\* The tag that a document body opens and never closes (<<>> when it has
\* none), and the position of that tag: the first place where the body
\* holds '<' and the name.
NeverClosed(source) ==
    CASE source \in {UnclosedText, NestedUnclosedText, DepthText} -> IfTag
      [] source = UnclosedElseText -> ElseTag
      [] source = BrokenText -> SetTag
      [] OTHER -> <<>>

OpeningAt(source) == indexOf(source, <<"<">> \o NeverClosed(source), 0)

\* C26: parsing a body with a tag that is opened and never closed throws a
\* ParseError whose line is the line of that opening tag in the body, and
\* returns no nodes.
C26_UnclosedTag ==
    (scan.state \in {"returned", "validated", "thrown"}
     /\ NeverClosed(scan.source) # <<>>) =>
        /\ scan.state = "thrown"
        /\ scan.error.line = lineAt(scan.source, OpeningAt(scan.source))

\* ---------------------------------------------------------------- C27
\* The bodies that are one tag with a literal in a prop: the prop, and its
\* value as written (of "...": without the quotes and the backslashes; of
\* {...}: the text between the braces).
LiteralProp(source) ==
    CASE source \in {QuotedOpenText, QuotedBraceText, BraceOpenText} ->
            <<"c", "o", "n", "d", "i", "t", "i", "o", "n">>
      [] source \in {QuotedSelfText, QuotedSlashText, EscapedQuoteText, BraceText,
                     TemplateText} -> <<"v", "a", "l", "u", "e">>
      [] OTHER -> <<>>

WholeValue(source) ==
    CASE source \in {QuotedOpenText, QuotedSelfText} -> <<"a", " ", ">", " ", "b">>
      [] source = QuotedBraceText -> <<"{">>
      [] source = BraceOpenText -> <<"a", " ", ">", " ", "1">>
      [] source = QuotedSlashText -> <<"a", " ", "/", ">", " ", "b">>
      [] source = EscapedQuoteText -> <<"a", " ", "\"", " ", ">", " ", "b">>
      [] source = BraceText -> <<"{", "k", ":", " ", "\"", "}", "\"", "}">>
      [] source = TemplateText -> <<BackQuote, "a", "$", "{", "\"", "}", "\"", "}", ">", BackQuote>>

\* The position of the '>' that ends the tag whose attributes start at i,
\* when "..." and {...} are stepped over; -1 when there is none.
RECURSIVE tagEnd(_, _)
tagEnd(source, i) ==
    IF i >= Len(source) THEN -1
    ELSE IF Ch(source, i) = "\"" THEN tagEnd(source, quoteStop(source, i + 1) + 1)
    ELSE IF Ch(source, i) = "{"
    THEN IF findMatchingBrace(source, i) = -1 THEN -1
         ELSE tagEnd(source, findMatchingBrace(source, i) + 1)
    ELSE IF Ch(source, i) = ">" THEN i
    ELSE tagEnd(source, i + 1)

\* The attribute text of the tag at the start of a body: what lies between
\* its name and that '>' (or the "/>" it is part of), trimmed.
WholeAttrs(source) ==
    LET from == 1 + Len(tagNameAt(source, 0))
        gt == tagEnd(source, from)
    IN  trim(slice(source, from, IF Ch(source, gt - 1) = "/" THEN gt - 1 ELSE gt))

\* C27: a body that is one tag with a literal in a prop parses; the tag is
\* the first thing the scanner recognises, with its whole attribute text,
\* and the node built from it holds the prop with its whole value.
C27_OpaqueLiterals ==
    (scan.state \in {"returned", "validated", "thrown"}
     /\ LiteralProp(scan.source) # <<>>) =>
        /\ scan.state # "thrown"
        /\ scan.met # <<>>
        /\ scan.met[1].start = 0
        /\ scan.met[1].attrs = WholeAttrs(scan.source)
        /\ hasProp(scan.nodes[1].props, LiteralProp(scan.source))
        /\ prop(scan.nodes[1].props, LiteralProp(scan.source)).raw = WholeValue(scan.source)

\* ---------------------------------------------------------------- C28
\* The names of the well-formed tags of a body that are no known component:
\* self-closing tags, and opening tags with their closing tag.
UnknownTags(source) ==
    {tagNameAt(source, pos) : pos \in
        {q \in 0..(Len(source) - 1) :
            /\ tagNameAt(source, q) # <<>>
            /\ tagNameAt(source, q) \notin KNOWN_COMPONENTS
            /\ \/ matchSelfClosingTag(source, q).found
               \/ /\ matchOpeningTag(source, q).found
                  /\ findClosingTag(source, tagNameAt(source, q),
                                    matchOpeningTag(source, q).end) # -1}}

\* The contents of the prose nodes of a tree of parsed nodes.
RECURSIVE ProseTexts(_)
ProseTexts(nodes) ==
    IF nodes = <<>> THEN {}
    ELSE (IF Head(nodes).kind = "prose" THEN {Head(nodes).content} ELSE {})
         \cup (IF "children" \in DOMAIN Head(nodes)
               THEN ProseTexts(Head(nodes).children) ELSE {})
         \cup (IF "elseChildren" \in DOMAIN Head(nodes)
               THEN ProseTexts(Head(nodes).elseChildren) ELSE {})
         \cup ProseTexts(Tail(nodes))

\* C28: a body with a well-formed tag that is no known component parses,
\* the tag is part of a prose node, and validation reports the component.
C28_UnknownCaught ==
    \A name \in UnknownTags(scan.source) :
        /\ scan.state # "thrown"
        /\ scan.state \in {"returned", "validated"} =>
                \E content \in ProseTexts(scan.nodes) :
                    indexOf(content, <<"<">> \o name, 0) # -1
        /\ scan.state = "validated" =>
                \E n \in 1..Len(scan.errors) :
                    scan.errors[n] = [message |-> "Unknown component", name |-> name]

\* ------------------------------------------------------------------- C29

\* No write was completed through another session ID that names the
\* directory of `sessionId`.
OwnDirectory(sessionId) ==
    \A other \in sessionLog.writers :
        other # sessionId => sessionPath(other) # sessionPath(sessionId)

\* C29: the history of a session is what was written last.  For every
\* session ID whose directory no other ID was written through, loadHistory,
\* from any SessionManager instance for that ID, returns the message list of
\* the saveMessages completed last through the ID, or the empty list when a
\* clearHistory was completed last or nothing was ever saved; the latest
\* completed loadHistory returned exactly that.  A save replaces the history,
\* it never adds to it.
C29_LastWriteWins ==
    \A sessionId \in SessionIds :
        OwnDirectory(sessionId) =>
            /\ Loaded(disk, sessionId) = sessionLog.last[sessionId].messages
            /\ (sessionLog.done.op = "load" /\ sessionLog.done.sessionId = sessionId)
                   => sessionLog.done.result = sessionLog.last[sessionId].messages

\* A loadHistory has returned the one message of the save completed last,
\* which replaced a history of two messages.
C29_Witness ==
    /\ sessionLog.done.op = "load"
    /\ OwnDirectory(sessionLog.done.sessionId)
    /\ sessionLog.last[sessionLog.done.sessionId].op = "save"
    /\ sessionLog.last[sessionLog.done.sessionId].before = <<UserMessage, AssistantMessage>>
    /\ sessionLog.done.result = <<UserMessage>>

\* ------------------------------------------------------------------- C30

\* C30: sessions are isolated.  For two different session IDs A and B, no
\* step of a saveMessages or clearHistory call on a manager for A changes
\* what loadHistory returns for B.
C30_Isolation ==
    [][\A m \in 1..Len(managers) :
          (managers[m].call.op \in {"save", "clear"} /\ managers'[m] # managers[m])
             => \A B \in SessionIds \ {managers[m].sessionId} :
                    Loaded(disk', B) = Loaded(disk, B)]_vars

\* ------------------------------------------------------------------- C33

\* C33: the context stack is append-only outside loop boundaries.  In every
\* step that is neither the reset at the start of a loop iteration nor the
\* restore at the end of a Loop, the stack of every executor that is there
\* before and after the step is, before the step, a prefix of what it is
\* after it.
C33_AppendOnly ==
    [][~(loopIterate \/ loopEnd) =>
          \A e \in 1..Len(ctxs) :
              e <= Len(ctxs') => IsPrefix(ctxs[e].contextStack, ctxs'[e].contextStack)]_vars

\* A Loop has completed and the stack has grown to three entries or more.
C33_Witness ==
    /\ loopLog # <<>>
    /\ ctxs # <<>>
    /\ Len(ctxs[1].contextStack) >= 3

\* ------------------------------------------------------------------- C34

\* The events the sink received for the node start `inst`, in order.
EventsOf(inst) == SelectSeq(events, LAMBDA e : e.at = inst)

\* C34: streamed chunks add up to the output.  For every Generation that
\* recorded an output, the events the sink received for it are
\* generation:start, then one generation:chunk per delta, then
\* generation:end (and the output event), all under the node's name; every
\* event of a node that started later comes after them; and the chunk
\* contents joined in emission order are the text stored as the node's output.
C34_ChunksAddUp ==
    \A l \in 1..Len(llmLog) :
        LET g == llmLog[l]
            own == EventsOf(g.inst)
            chunks == SelectSeq(own, LAMBDA e : e.type = "generation:chunk")
            text == JoinStr([k \in 1..Len(chunks) |-> chunks[k].content], "")
        IN  /\ Len(own) = Len(chunks) + 3
            /\ own[1].type = "generation:start"
            /\ \A k \in 2..(Len(chunks) + 1) : own[k].type = "generation:chunk"
            /\ own[Len(chunks) + 2].type = "generation:end"
            /\ own[Len(chunks) + 3].type = "output"
            /\ \A k \in 1..Len(own) : own[k].name = g.name
            /\ ObjHas(g.after.outputs, g.name)
            /\ ObjGet(g.after.outputs, g.name) = Str(text)
            /\ \A i \in 1..Len(events), j \in 1..Len(events) :
                   (events[i].at = g.inst /\ events[j].at > g.inst) => i < j

\* Two generations have completed, the first from two chunks, and events
\* of later nodes have reached the sink.
C34_Witness ==
    /\ Len(llmLog) >= 2
    /\ Len(llmLog[1].deltas) = 2
    /\ \E j \in 1..Len(events) : events[j].at > llmLog[2].inst

\* ------------------------------------------------------------------- C35

\* How many events of `type` the sink has received.
EventCount(type) == Len(SelectSeq(events, LAMBDA e : e.type = type))

\* C35: run-level events bracket the run.  For the first top-level execute()
\* the sink receives exactly one start event, before every other event, at
\* most one complete event, after every other event, and exactly one once
\* the run has succeeded - also when the workflow contains Flow nodes.
C35_RunBracketed ==
    Len(execLog) = 1 =>
        /\ events[1].type = "start"
        /\ EventCount("start") = 1
        /\ EventCount("complete") <= 1
        /\ \A i \in 1..Len(events) : events[i].type = "complete" => i = Len(events)
        /\ status = "done" => EventCount("complete") = 1

\* ------------------------------------------------------------------- C40

\* The state of a run of a workflow before execute() is called.
ExecutorIdle ==
    /\ run = [mode |-> "api", interactive |-> FALSE, path |-> "seq.mdx",
              given |-> <<>>, resolver |-> "none", retry |-> 0]
    /\ cli = [phase |-> "off", code |-> -1, inputs |-> <<>>]
    /\ stderr = <<>>
    /\ status = "idle"
    /\ ctxs = <<>>
    /\ frames = <<>>
    /\ pending = NoPending
    /\ result = <<>>
    /\ events = <<>>
    /\ nextId = 1
    /\ trace = <<>>
    /\ llmLog = <<>>
    /\ loopLog = <<>>
    /\ ifLog = <<>>
    /\ flowLog = <<>>
    /\ inputLog = <<>>
    /\ structLog = <<>>
    /\ execLog = <<>>
    /\ thrown = ""

\* evaluateExpression on its own: an expression and a scope; the other
\* scope starts as the same scope.
EvalInit ==
    /\ evaluation \in {[state |-> "scopes", expr |-> expr, scope |-> scope,
                         other |-> scope, value |-> Undef, otherValue |-> Undef] :
                            expr \in EvalExpressions, scope \in EvalScopes}
    /\ ExecutorIdle
    /\ scan = ScanOff
    /\ disk = NoDisk
    /\ managers = <<>>
    /\ sessionLog = NoSessionLog
    /\ stream = StreamOff
    /\ modules = ModulesOff
    /\ server = ServerOff
    /\ daemon = DaemonOff
    /\ heartbeat = HeartbeatOff

EvalNext ==
    \/ addUnmentioned
    \/ removeUnmentioned
    \/ renameUnmentioned
    \/ evaluate

EvalSpec == EvalInit /\ [][EvalNext]_vars

\* The two scopes agree on every name the expression mentions.
Agree(expr, a, b) ==
    \A n \in Mentions(expr) :
        /\ ObjHas(a, n) <=> ObjHas(b, n)
        /\ ObjGet(a, n) = ObjGet(b, n)

\* C40: evaluation depends only on what the expression references.  When
\* the two scopes agree on every name the expression mentions, the
\* expression evaluates to the same value in both.
C40_OnlyReferenced ==
    (evaluation.state = "evaluated"
        /\ Agree(evaluation.expr, evaluation.scope, evaluation.other))
    => evaluation.value = evaluation.otherValue

\* ------------------------------------------------------------------- C31

\* Every part of the model but the executor, not in use.
RestOff ==
    /\ scan = ScanOff
    /\ disk = NoDisk
    /\ managers = <<>>
    /\ sessionLog = NoSessionLog
    /\ evaluation = EvaluationOff

\* One call of processTaskStream on an initialized runtime.
StreamInit ==
    /\ stream = StreamStart
    /\ ExecutorIdle
    /\ RestOff
    /\ modules = ModulesOff
    /\ server = ServerOff
    /\ daemon = DaemonOff
    /\ heartbeat = HeartbeatOff

StreamNext ==
    \/ processTaskStream
    \/ nextEvent
    \/ waitResolved
    \/ promptAwaited
    \/ agentEmit
    \/ agentEnd
    \/ promptResolve
    \/ promptReject

StreamSpec == StreamInit /\ [][StreamNext]_vars

\* C31: the turn limit.  One call of processTaskStream yields the events of
\* at most MAX_TURNS turns: what it has yielded is the beginning of what the
\* agent emitted and holds no event of a turn after the 50th; once the 51st
\* turn_start has been taken off the queue the agent is aborted, the
\* generator is out of its loops, and it yields nothing more.
C31_TurnLimit ==
    /\ [](/\ IsPrefix(stream.yielded, stream.emitted)
          /\ \A i \in 1..Len(stream.yielded) : stream.yielded[i].turn <= MAX_TURNS
          /\ stream.turnCount > MAX_TURNS =>
                /\ stream.agent.aborted
                /\ stream.state \in {"awaitPrompt", "returned", "thrown"})
    /\ [][stream.turnCount > MAX_TURNS => stream'.yielded = stream.yielded]_vars

\* The generator has returned after the 51st turn_start: it yielded
\* agent_start and the three events of each of fifty turns, and the agent
\* had emitted more.
C31_Witness ==
    /\ stream.state = "returned"
    /\ stream.turnCount = MAX_TURNS + 1
    /\ Len(stream.yielded) = 1 + 3 * MAX_TURNS
    /\ Len(stream.emitted) > Len(stream.yielded) + 1

\* ------------------------------------------------------------------- C37

\* The stream with a consumer that keeps asking for events and a scheduler
\* that runs every continuation that is ready.
StreamFairSpec ==
    /\ StreamInit
    /\ [][StreamNext]_vars
    /\ WF_vars(processTaskStream)
    /\ WF_vars(nextEvent)
    /\ WF_vars(waitResolved)
    /\ WF_vars(promptAwaited)

\* The generator has returned or thrown and its subscription is removed.
Finished == stream.state \in {"returned", "thrown"} /\ ~stream.subscribed

\* The events the agent emitted, up to its agent_end.
UpToAgentEnd ==
    LET ends == {i \in 1..Len(stream.emitted) : stream.emitted[i].type = "agent_end"}
    IN  IF ends = {} THEN stream.emitted
        ELSE SubSeq(stream.emitted, 1, CHOOSE i \in ends : TRUE)

\* C37: processTaskStream always finishes.  Once the agent's prompt has
\* settled, resolved or rejected, with or without an agent_end, the
\* generator eventually returns or throws and its subscription is removed;
\* and a generator that has finished without aborting the agent has yielded
\* every event the agent emitted up to agent_end, once each and in order.
C37_AlwaysFinishes ==
    /\ (stream.agent.phase = "settled") ~> Finished
    /\ []((Finished /\ ~stream.agent.aborted) => stream.yielded = UpToAgentEnd)

\* ------------------------------------------------------------------- C32

\* One AgentRuntime, from its construction.
ModulesInit ==
    /\ modules = ModulesStart
    /\ ExecutorIdle
    /\ RestOff
    /\ stream = StreamOff
    /\ server = ServerOff
    /\ daemon = DaemonOff
    /\ heartbeat = HeartbeatOff

ModulesNext ==
    \/ initialize
    \/ initializeModule
    \/ createAgent
    \/ start
    \/ startModule
    \/ buildSystemPrompt
    \/ stop

ModulesSpec == ModulesInit /\ [][ModulesNext]_vars

\* C32: a module's init failure is contained.  Once initialization is
\* complete the runtime holds the loaded modules whose initialize() did not
\* throw, in load order; and a module whose initialize() threw is absent from
\* the runtime at all times: its tool is not registered, its section is not
\* in the system prompt, and none of its tools(), systemPrompt(), start()
\* and stop() is ever called.
C32_InitFailureContained ==
    /\ modules.state \in {"initialized", "starting", "started"}
          => modules.modules = Without(LoadedModules, modules.failed)
    /\ \A mod \in modules.failed :
          /\ \A i \in 1..Len(modules.modules) : modules.modules[i] # mod
          /\ \A i \in 1..Len(modules.allTools) : modules.allTools[i] # ModuleTool(mod)
          /\ \A i \in 1..Len(modules.systemPrompt) :
                modules.systemPrompt[i] # ModuleSection(mod)
          /\ \A method \in {"tools", "systemPrompt", "start", "stop"} :
                <<mod, method>> \notin modules.called

\* The second module failed to initialize; the runtime was initialized,
\* started and stopped with the other two, whose tools are registered.
C32_Witness ==
    /\ modules.state = "stopped"
    /\ modules.failed = {"notes"}
    /\ modules.modules = <<"heartbeat", "mail">>
    /\ modules.allTools = BuiltinTools \o <<"heartbeat_tool", "mail_tool">>
    /\ <<"mail", "start">> \in modules.called
    /\ <<"mail", "stop">> \in modules.called

\* ------------------------------------------------------------------- C36

\* The web server with its two sockets, on one session or on two.
ServerInit ==
    /\ server \in {ServerStart(second) : second \in ServerSessions}
    /\ ExecutorIdle
    /\ RestOff
    /\ stream = StreamOff
    /\ modules = ModulesOff
    /\ daemon = DaemonOff
    /\ heartbeat = HeartbeatOff

ServerNext ==
    \/ handlePrompt
    \/ promptIdle
    \/ promptBusy
    \/ agentReply
    \/ persistHistory
    \/ streamError

ServerSpec == ServerInit /\ [][ServerNext]_vars

\* C36: concurrent prompts do not mix sessions.  The history persisted for a
\* session after a prompt is the history the session had before the prompt
\* followed by the prompt's own user message and reply, whether or not the
\* handling of another prompt overlapped with it.
C36_NoMixing ==
    \A save \in server.saves :
        save.saved = save.previous \o
                        <<UserPrompt(save.socket, save.n, save.session),
                          AssistantReply(save.socket, save.n, save.session)>>

\* ------------------------------------------------------------------- C38

\* The process managers of two invocations on one PID path.
DaemonInit ==
    /\ daemon = NoDaemon
    /\ ExecutorIdle
    /\ RestOff
    /\ stream = StreamOff
    /\ modules = ModulesOff
    /\ server = ServerOff
    /\ heartbeat = HeartbeatOff

DaemonNext ==
    \/ callStatus
    \/ callStart
    \/ callStop
    \/ statusExists
    \/ statusRead
    \/ statusProbe
    \/ statusCleanup
    \/ statusReturn
    \/ startThrow
    \/ startSpawn
    \/ startWrite
    \/ stopThrow
    \/ stopTerm
    \/ stopKill
    \/ stopCleanup
    \/ daemonExit

DaemonSpec == DaemonInit /\ [][DaemonNext]_vars

\* C38: at most one daemon.  However the calls of start(), stop() and
\* status() interleave, at most one daemon spawned through start() is alive,
\* and start() never spawns a daemon beside one that is alive.
C38_AtMostOne ==
    /\ Cardinality(daemon.alive) <= 1
    /\ \A spawn \in daemon.spawns : spawn.beside = {}

\* ------------------------------------------------------------------- C39

\* One HeartbeatManager.
HeartbeatInit ==
    /\ heartbeat = Constructed
    /\ ExecutorIdle
    /\ RestOff
    /\ stream = StreamOff
    /\ modules = ModulesOff
    /\ server = ServerOff
    /\ daemon = DaemonOff

HeartbeatNext ==
    \/ heartbeatStart
    \/ heartbeatStop
    \/ wake
    \/ intervalFires
    \/ callbackSettles

HeartbeatSpec == HeartbeatInit /\ [][HeartbeatNext]_vars

\* C39: stopping a heartbeat stops it.  From the return of stop() until the
\* next start() the scheduler does not invoke the wake callback, whatever
\* start() and stop() calls came before.
C39_StopStops ==
    [][heartbeat.stopped /\ heartbeat'.stopped
            => heartbeat'.byScheduler = heartbeat.byScheduler]_vars

====
